---- MODULE Spec2Model ----
(***************************************************************************)
(* Epsilon heap with the experimental Lisp2-style sliding mark-compact.    *)
(*                                                                         *)
(* Modelled from src/hotspot/share/gc/epsilon/epsilonHeap.cpp:             *)
(*   Spec         the allocator and the expansion protocol for threads     *)
(*                allocating concurrently, with implicit collections; the  *)
(*                collector's phases are steps whose effect on the space   *)
(*                is top := new_top.                                       *)
(*   SpecCollect  the GC request coalescer, the GC locker and the          *)
(*                safepoint, for threads that call collect, pin and unpin. *)
(*   SpecPinned   allocation and collection with pinned objects, under     *)
(*                fair scheduling.                                         *)
(*   SpecGC       the collection cycle over a heap of objects, word by     *)
(*                word (mark, forwarding, adjust, move, epilogue).         *)
(*   SpecBitmap   the same cycle with both results of the uncommit of the  *)
(*                marking bitmap.                                          *)
(*   SpecTlab     allocate_new_tlab: the elastic, decaying TLAB sizing of  *)
(*                each thread over a fully committed heap.                 *)
(*   SpecCalls    allocate and collect calls of the same threads, with any *)
(*                setting of the flags.                                    *)
(*   SpecCounters the counter and heap-print watermarks at the end of      *)
(*                allocate_work, statement by statement.                   *)
(*   SpecGCFair   the collection cycle under weak fairness, over the       *)
(*                smaller heaps.                                           *)
(*   SpecAllocFair allocate_work alone under fair scheduling, every        *)
(*                expand_by succeeding.                                    *)
(* Addresses and sizes are in heap words; byte quantities are words times  *)
(* HeapWordSize, as in the source.                                         *)
(***************************************************************************)
EXTENDS Integers, Sequences, FiniteSets, TLC

(* ------------------------------------------------------------------ *)
(* Bounds of the model and configuration of the heap.                 *)
(* ------------------------------------------------------------------ *)

\* number of Java threads
NThreads == 3
\* number of Java threads that allocate
NAllocators == 2
\* reserved size of the heap, in words (MaxHeapSize / HeapWordSize)
MaxHeapWords == 5
\* largest single request, in words
MaxReqWords == 2
\* requests accepted by the coalescer before the model stops issuing new ones
MaxReqId == 2
\* nesting depth of JNI critical sections per thread
MaxCritical == 1
\* words of the heap the mark-compact cycle works on
GCHeapWords == 8
\* number of root slots
NRoots == 2
\* number of entry_collect calls in a row
MaxCycles == 2
\* words in use in the heaps whose cycles are checked for progress
FairHeapWords == 6
\* words of the heap TLABs are carved from
TlabHeapWords == 8
\* largest _max_tlab_size, in words
MaxTlabWords == 4
\* largest min_size argument of allocate_new_tlab, in words
MaxMinWords == 3
\* largest requested_size argument of allocate_new_tlab, in words
MaxTlabReq == 5
\* largest value of os::javaTimeNanos
MaxTime == 3
\* largest _decay_time_ns
MaxDecay == 1

\* bytes per heap word
HeapWordSize == 8
\* EpsilonUpdateCountersStep, in bytes
EpsilonUpdateCountersStep == 1024
\* EpsilonPrintHeapSteps
EpsilonPrintHeapSteps == 2
\* size_t is unsigned and wraps; the model keeps SizeBits bits of it, enough
\* for every byte count of the heap
SizeBits == 16
\* committed size at initialization, in words (InitialHeapSize / HeapWordSize)
InitialHeapWords == 1
\* EpsilonMinHeapExpand, in bytes
EpsilonMinHeapExpand == 16
\* address of the first heap word (heap_rs.base())
HeapBase == 10
\* the null address
NULL == 0
\* MinObjAlignment, in words
MinObjAlignment == 2
\* markWord::prototype(), the mark init_mark writes
MarkPrototype == 1
\* a mark word that carries an identity hash
MarkHashed == 5
\* klass words: an object without fields, an object with two references,
\* an object with a reference and a word of data
KLeaf == 1
KNode == 2
KData == 3

Threads == 1..NThreads
Allocators == 1..NAllocators
\* the VM thread, when it is the one that calls collect() at a safepoint
VMThread == 0

VARIABLES
  \* ---- ContiguousSpace / VirtualSpace ----
  top,            \* _space->top()
  end,            \* _space->end()
  committed,      \* _virtual_space.committed_size(), bytes
  \* ---- locks ----
  heapLock,       \* owner of Heap_lock, 0 when free
  \* ---- per-thread position and locals ----
  pc,             \* where each thread is
  op,             \* the entry point the thread is in: "none", "alloc", "collect"
  size,           \* the size argument of allocate_work, words
  res,            \* the res local of allocate_work / allocate_or_collect_work
  retry,          \* TRUE in the second allocate_work of allocate_or_collect_work
  \* ---- configuration flags, fixed at startup ----
  EpsilonSlidingGC,
  EpsilonImplicitGC,
  EpsilonUncommit,
  \* ---- GC request coalescer ----
  req_id,         \* VM_EpsilonCollect::_req_id
  id,             \* the id local of doit_prologue, per thread
  \* ---- GC locker ----
  critical,       \* per thread: depth of JNI critical sections (pins held)
  gcPending,      \* GCLocker::_is_gc_request_pending
  gclLock,        \* owner of GCLocker::_lock, 0 when free
  \* ---- collector (at a safepoint) ----
  gcPhase,        \* phase of entry_collect
  gcOwner,        \* thread whose VM operation runs, VMThread for a direct call
  new_top,        \* the new_top local of entry_collect
  marked,         \* the objects the mark phase reached (indices into allocated)
  \* ---- history (not program state) ----
  allocated,      \* the ranges handed out and not reclaimed, in address order
  slow,           \* per thread: the last slow-path decision of allocate_work
  req,            \* per thread: the history of its current collect request
  ran,            \* the requests doit_prologue accepted
  lastGC,         \* what the last entry_collect call did
  \* ---- the heap of objects and the collector's structures ----
  mem,            \* the words of the heap, by address
  roots,          \* the root slots
  bitmap,         \* the addresses whose bit is set in _bitmap
  mstack,         \* the EpsilonMarkStack of Step 1
  pmarks,         \* the PreservedMarks list
  cursor,         \* the addr local of walk_bitmap
  compact_point,  \* EpsilonCalcNewLocationObjectClosure::_compact_point
  cycles,         \* entry_collect calls that have returned
  \* ---- history of the current cycle (not program state) ----
  mem0,           \* the heap when the cycle started
  roots0,         \* the roots when the cycle started
  top0,           \* top when the cycle started
  end0,           \* end when the cycle started
  bits0,          \* the bitmap when the cycle started
  commit,         \* the result of the last os::commit_memory: "none", "ok", "failed"
  fwdLog,         \* the objects Step 2 visited: from, to, size, mark, saved
  pushLog,        \* the objects Step 1 pushed on the mark stack, in order
  mem3,           \* the heap when Step 3 ended
  \* ---- TLAB sizing ----
  EpsilonElasticTLAB,
  EpsilonElasticTLABDecay,
  EpsilonTLABElasticity,  \* the growth factor, in units of 1/ElasticityUnit
  max_tlab_size,  \* _max_tlab_size, words
  decay_time_ns,  \* _decay_time_ns
  ergo_tlab_size, \* EpsilonThreadLocalData::ergo_tlab_size, per thread
  last_tlab_time, \* EpsilonThreadLocalData::last_tlab_time, per thread
  javaTimeNanos,  \* the value os::javaTimeNanos() returns
  tlab,           \* history: the last allocate_new_tlab call
  \* ---- counters ----
  last_counter_update,  \* _last_counter_update, bytes
  last_heap_print,      \* _last_heap_print, bytes
  used_local,     \* the used local of allocate_work, per thread
  last_local,     \* the last local of allocate_work, per thread
  winners         \* history: the last compare-and-set that succeeded, per watermark

vars == <<top, end, committed, heapLock, pc, op, size, res, retry,
          EpsilonSlidingGC, EpsilonImplicitGC, EpsilonUncommit,
          req_id, id, critical, gcPending, gclLock,
          gcPhase, gcOwner, new_top, marked,
          allocated, slow, req, ran, lastGC,
          mem, roots, bitmap, mstack, pmarks, cursor, compact_point, cycles,
          mem0, roots0, top0, end0, bits0, commit, fwdLog, pushLog, mem3,
          EpsilonElasticTLAB, EpsilonElasticTLABDecay, EpsilonTLABElasticity,
          max_tlab_size, decay_time_ns, ergo_tlab_size, last_tlab_time,
          javaTimeNanos, tlab,
          last_counter_update, last_heap_print, used_local, last_local, winners>>

heapVars  == <<top, end, committed>>
flagVars  == <<EpsilonSlidingGC, EpsilonImplicitGC, EpsilonUncommit>>
lockerVars == <<critical, gcPending, gclLock>>
gcVars    == <<gcPhase, gcOwner, new_top, marked>>
reqVars   == <<req_id, id>>
histVars  == <<allocated, slow, req, ran, lastGC>>
localVars == <<op, size, res, retry>>
objVars   == <<mem, roots, bitmap, mstack, pmarks, cursor, compact_point, cycles,
               mem0, roots0, top0, end0, bits0, commit, fwdLog, pushLog, mem3>>
startVars == <<mem0, roots0, top0, end0, bits0, commit, pushLog, mem3>>
tlabFlags == <<EpsilonElasticTLAB, EpsilonElasticTLABDecay, EpsilonTLABElasticity,
               max_tlab_size, decay_time_ns>>
tlabVars  == <<tlabFlags, ergo_tlab_size, last_tlab_time, javaTimeNanos, tlab>>
ctrVars   == <<last_counter_update, last_heap_print, used_local, last_local, winners>>

(* ------------------------------------------------------------------ *)
(* Helpers                                                             *)
(* ------------------------------------------------------------------ *)

MAX2(a, b) == IF a > b THEN a ELSE b

bottom == HeapBase
max_capacity == MaxHeapWords * HeapWordSize
capacity == committed
used == (top - bottom) * HeapWordSize
\* (HeapWord*) _virtual_space.high()
VirtualSpaceHigh(c) == bottom + (c \div HeapWordSize)

\* expanded: an expand_by of the current call of allocate_work has succeeded
NoSlow ==
  [kind |-> "none", bytes |-> 0, want |-> 0, uncommitted |-> 0, unused |-> 0,
   by |-> 0, expanded |-> FALSE]

\* history of one collect request: what it found when it read the request id
\* and what happened to it since
\* (quiet: it came after a collection skipped for a pin, found no pin held, and
\* no pin was taken and no other request was in flight since)
NoReq == [state |-> "none", batch |-> 0, quiet |-> FALSE, seen |-> {}]

\* positions of a thread inside VMThread::execute(&vmop)
VmPcs == {"vm_lock", "vm_queued", "vm_doit", "vm_epilogue"}
\* a collection is running: its request passed doit_prologue and has not yet
\* left doit_epilogue
CollectionRunning == \E u \in Threads : pc[u] \in {"vm_queued", "vm_doit", "vm_epilogue"}
\* GCLocker::is_active(): some thread is in a JNI critical section
is_active == \E u \in Threads : critical[u] > 0

\* A safepoint is reached only when every Java thread is blocked or in native.
SafePc == {"idle", "aw_lock", "vm_lock", "vm_queued", "vm_doit",
           "aoc_block", "aoc_block_wait", "pin_wait"}
AtSafepoint == gcPhase # "idle"
AllSafe == \A t \in Threads : pc[t] \in SafePc
\* a mutator runs only outside a safepoint
Running(t) == ~AtSafepoint

(* ------------------------------------------------------------------ *)
(* ContiguousSpace and VirtualSpace                                    *)
(* ------------------------------------------------------------------ *)

\* ContiguousSpace::par_allocate(size) succeeds iff top + size <= end; it then
\* advances top by size in one atomic step and returns the old top.
par_allocate_fits(sz) == top + sz <= end

\* expand_by that commits nothing
expand_by_NoCommit(bytes, ok) == committed

\* VirtualSpace::expand_by(bytes): commits bytes more at the frontier when ok,
\* and changes nothing and returns false when the commit fails.
expand_by(bytes, ok) == IF ok THEN committed + bytes ELSE committed

\* VirtualSpace::shrink_by(bytes): uncommits bytes at the tail.
shrink_by(bytes) == committed - bytes

(* ------------------------------------------------------------------ *)
(* EpsilonHeap::allocate_work                                          *)
(* ------------------------------------------------------------------ *)

\* res = _space->par_allocate(size) on the lock-free path (lines 152-155);
\* on failure the thread goes for Heap_lock (line 159).
AllocFast(t) ==
  /\ Running(t)
  /\ pc[t] = "aw_fast"
  /\ IF par_allocate_fits(size[t])
       THEN /\ top' = top + size[t]
            /\ res' = [res EXCEPT ![t] = top]
            /\ allocated' = Append(allocated, [a |-> top, n |-> size[t]])
            /\ pc' = [pc EXCEPT ![t] = "aw_ret"]
       ELSE /\ pc' = [pc EXCEPT ![t] = "aw_lock"]
            /\ UNCHANGED <<top, res, allocated>>
  /\ slow' = [slow EXCEPT ![t] = [NoSlow EXCEPT !.expanded = slow[t].expanded]]
  /\ UNCHANGED <<end, committed, heapLock, op, size, retry, flagVars, tlabVars, ctrVars, objVars, reqVars,
                 lockerVars, gcVars, req, ran, lastGC>>

\* MutexLocker ml(Heap_lock) (line 159)
AllocLock(t) ==
  /\ Running(t)
  /\ pc[t] = "aw_lock"
  /\ heapLock = 0
  /\ heapLock' = t
  /\ pc' = [pc EXCEPT ![t] = "aw_locked"]
  /\ UNCHANGED <<heapVars, localVars, flagVars, tlabVars, ctrVars, objVars, reqVars, lockerVars,
                 gcVars, histVars>>

\* AllocLocked with the address handed out but top left where it was
AllocLocked_TopNotAdvanced(t) ==
  /\ Running(t)
  /\ pc[t] = "aw_locked"
  /\ heapLock = t
  /\ IF par_allocate_fits(size[t])
       THEN /\ res' = [res EXCEPT ![t] = top]
            /\ allocated' = Append(allocated, [a |-> top, n |-> size[t]])
            /\ heapLock' = 0
            /\ pc' = [pc EXCEPT ![t] = "aw_ret"]
            /\ UNCHANGED top
       ELSE /\ pc' = [pc EXCEPT ![t] = "aw_expand"]
            /\ UNCHANGED <<top, res, allocated, heapLock>>
  /\ UNCHANGED <<end, committed, op, size, retry, flagVars, tlabVars, ctrVars, objVars, reqVars, lockerVars,
                 gcVars, slow, req, ran, lastGC>>

\* the retry of par_allocate under the lock (lines 162-165); break leaves the
\* MutexLocker scope and releases the lock.
AllocLocked(t) ==
  /\ Running(t)
  /\ pc[t] = "aw_locked"
  /\ heapLock = t
  /\ IF par_allocate_fits(size[t])
       THEN /\ top' = top + size[t]
            /\ res' = [res EXCEPT ![t] = top]
            /\ allocated' = Append(allocated, [a |-> top, n |-> size[t]])
            /\ heapLock' = 0
            /\ pc' = [pc EXCEPT ![t] = "aw_ret"]
       ELSE /\ pc' = [pc EXCEPT ![t] = "aw_expand"]
            /\ UNCHANGED <<top, res, allocated, heapLock>>
  /\ UNCHANGED <<end, committed, op, size, retry, flagVars, tlabVars, ctrVars, objVars, reqVars, lockerVars,
                 gcVars, slow, req, ran, lastGC>>

\* the three-way decision of lines 176-188
ExpandKind(size_in_bytes, want_space, uncommitted_space, unused_space) ==
  IF want_space < uncommitted_space THEN "bulk"
  ELSE IF size_in_bytes < unused_space THEN "tail"
  ELSE "oom"

\* lines 168-191: compute the spaces; expand (the result of expand_by is only
\* asserted on), set_end and loop back; or return nullptr. Leaving the scope
\* releases Heap_lock. ok is the result of expand_by.
AllocExpandWith(t, ok) ==
  /\ Running(t)
  /\ pc[t] = "aw_expand"
  /\ heapLock = t
  /\ LET size_in_bytes == size[t] * HeapWordSize
         uncommitted_space == max_capacity - capacity
         unused_space == max_capacity - used
         want_space == MAX2(size_in_bytes, EpsilonMinHeapExpand)
         kind == ExpandKind(size_in_bytes, want_space, uncommitted_space, unused_space)
         by == IF kind = "bulk" THEN want_space
               ELSE IF kind = "tail" THEN uncommitted_space ELSE 0
         rec == [kind |-> kind, bytes |-> size_in_bytes, want |-> want_space,
                 uncommitted |-> uncommitted_space, unused |-> unused_space,
                 by |-> by,
                 expanded |-> slow[t].expanded \/ (kind # "oom" /\ ok)]
     IN  IF kind = "oom"
           THEN /\ res' = [res EXCEPT ![t] = NULL]
                /\ pc' = [pc EXCEPT ![t] = "aw_ret"]
                /\ slow' = [slow EXCEPT ![t] = rec]
                /\ UNCHANGED <<committed, end>>
           ELSE LET c == expand_by(by, ok)
                IN  /\ committed' = c
                    /\ end' = VirtualSpaceHigh(c)
                    /\ slow' = [slow EXCEPT ![t] =
                                  [rec EXCEPT !.kind = IF ok THEN kind ELSE "failed"]]
                    /\ pc' = [pc EXCEPT ![t] = "aw_fast"]
                    /\ UNCHANGED res
  /\ heapLock' = 0
  /\ UNCHANGED <<top, op, size, retry, flagVars, tlabVars, ctrVars, objVars, reqVars, lockerVars, gcVars,
                 allocated, req, ran, lastGC>>

\* the slow path with either result of expand_by
AllocExpand(t) == \E ok \in BOOLEAN : AllocExpandWith(t, ok)

(* ------------------------------------------------------------------ *)
(* VM_EpsilonCollect and EpsilonHeap::vmentry_collect                  *)
(* ------------------------------------------------------------------ *)

\* vmentry_collect (lines 467-470) up to the first statement of
\* doit_prologue (line 438): id = load_acquire(&_req_id). The history of the
\* request starts here.
ReadReqId(t) ==
  /\ id' = [id EXCEPT ![t] = req_id]
  /\ req' = [u \in Threads |->
               IF u = t
                 THEN [state |-> "waiting",
                       batch |-> IF CollectionRunning THEN req_id ELSE 0,
                       quiet |-> /\ lastGC = "pinned"
                                 /\ ~is_active
                                 /\ \A v \in Threads \ {t} : pc[v] \notin VmPcs,
                       seen |-> {}]
                 ELSE IF pc[u] \in VmPcs THEN [req[u] EXCEPT !.quiet = FALSE]
                 ELSE req[u]]

\* PrologueSkips that lets a request through when the id advanced by one
PrologueSkips_OffByOne(id0, cur) == id0 + 1 < cur

\* PrologueSkips that also skips when the id did not advance
PrologueSkips_OrEqual(id0, cur) == id0 <= cur

\* the comparison of doit_prologue (line 446): TRUE when the request is skipped
PrologueSkips(id0, cur) == id0 < cur

\* doit_prologue from Heap_lock->lock() on (lines 441-453)
VmPrologue(t) ==
  /\ Running(t)
  /\ pc[t] = "vm_lock"
  /\ heapLock = 0
  /\ IF PrologueSkips(id[t], req_id)
       THEN /\ pc' = [pc EXCEPT ![t] = "vm_ret"]
            /\ req' = [req EXCEPT ![t].state = "skipped"]
            /\ UNCHANGED <<heapLock, req_id, ran>>
       ELSE /\ req_id' = req_id + 1
            /\ heapLock' = t
            /\ pc' = [pc EXCEPT ![t] = "vm_queued"]
            /\ req' = [req EXCEPT ![t].state = "accepted"]
            /\ ran' = IF req[t].batch = 0 THEN ran
                      ELSE ran \cup {[as |-> req_id + 1, batch |-> req[t].batch]}
  /\ UNCHANGED <<heapVars, localVars, flagVars, tlabVars, ctrVars, objVars, id, lockerVars, gcVars,
                 allocated, slow, lastGC>>

\* the VM thread takes the operation and reaches a safepoint; doit (line 457)
\* calls entry_collect
SafepointBegin(t) ==
  /\ pc[t] = "vm_queued"
  /\ gcPhase = "idle"
  /\ AllSafe
  /\ gcPhase' = "entry"
  /\ gcOwner' = t
  /\ pc' = [pc EXCEPT ![t] = "vm_doit"]
  /\ UNCHANGED <<heapVars, heapLock, localVars, flagVars, tlabVars, ctrVars, objVars, reqVars, lockerVars,
                 new_top, marked, histVars>>

\* doit_epilogue (lines 460-462)
VmEpilogue(t) ==
  /\ Running(t)
  /\ pc[t] = "vm_epilogue"
  /\ heapLock' = 0
  /\ pc' = [pc EXCEPT ![t] = "vm_ret"]
  /\ UNCHANGED <<heapVars, localVars, flagVars, tlabVars, ctrVars, objVars, reqVars, lockerVars, gcVars,
                 histVars>>

\* VMThread::execute returns: collect goes on to line 338 and returns,
\* allocate_or_collect_work goes on to GCLocker::block() (line 476)
VmReturn(t) ==
  /\ Running(t)
  /\ pc[t] = "vm_ret"
  /\ IF op[t] = "alloc"
       THEN /\ pc' = [pc EXCEPT ![t] = "aoc_block"]
            /\ UNCHANGED op
       ELSE /\ pc' = [pc EXCEPT ![t] = "idle"]
            /\ op' = [op EXCEPT ![t] = "none"]
  /\ req' = [req EXCEPT ![t] = NoReq]
  /\ UNCHANGED <<heapVars, heapLock, size, res, retry, flagVars, tlabVars, ctrVars, objVars, reqVars,
                 lockerVars, gcVars, allocated, slow, ran, lastGC>>

(* ------------------------------------------------------------------ *)
(* EpsilonHeap::collect                                                *)
(* ------------------------------------------------------------------ *)

\* a Java thread calls collect(cause) with a cause other than the metadata
\* ones, outside a safepoint
StartCollect(t) ==
  /\ Running(t)
  /\ pc[t] = "idle"
  /\ req_id < MaxReqId
  /\ pc' = [pc EXCEPT ![t] = "collect"]
  /\ op' = [op EXCEPT ![t] = "collect"]
  /\ UNCHANGED <<heapVars, heapLock, size, res, retry, flagVars, tlabVars, ctrVars, objVars, reqVars,
                 lockerVars, gcVars, histVars>>

\* the default branch of collect (lines 327-336), not at a safepoint
CollectDispatch(t) ==
  /\ Running(t)
  /\ pc[t] = "collect"
  /\ IF EpsilonSlidingGC
       THEN /\ ReadReqId(t)
            /\ pc' = [pc EXCEPT ![t] = "vm_lock"]
            /\ UNCHANGED op
       ELSE /\ pc' = [pc EXCEPT ![t] = "idle"]
            /\ op' = [op EXCEPT ![t] = "none"]
            /\ req' = [req EXCEPT ![t].state = "ignored"]
            /\ UNCHANGED id
  /\ UNCHANGED <<heapVars, heapLock, size, res, retry, flagVars, tlabVars, ctrVars, objVars, req_id,
                 lockerVars, gcVars, allocated, slow, ran, lastGC>>

(* ------------------------------------------------------------------ *)
(* EpsilonHeap::allocate_or_collect_work (mem_allocate)                *)
(* ------------------------------------------------------------------ *)

\* mem_allocate(size) -> allocate_or_collect_work(size): the first
\* allocate_work (line 473)
StartAlloc(t, n) ==
  /\ Running(t)
  /\ pc[t] = "idle"
  /\ req_id < MaxReqId \/ ~(EpsilonSlidingGC /\ EpsilonImplicitGC)
  /\ pc' = [pc EXCEPT ![t] = "aw_fast"]
  /\ op' = [op EXCEPT ![t] = "alloc"]
  /\ size' = [size EXCEPT ![t] = n]
  /\ res' = [res EXCEPT ![t] = NULL]
  /\ retry' = [retry EXCEPT ![t] = FALSE]
  /\ UNCHANGED <<heapVars, heapLock, flagVars, tlabVars, ctrVars, objVars, reqVars, lockerVars, gcVars,
                 histVars>>

\* WantsCollect that does not look at EpsilonSlidingGC
WantsCollect_ImplicitOnly(r) == r = NULL /\ EpsilonImplicitGC

\* WantsCollect that does not look at the result of the first allocate_work
WantsCollect_AnyResult(r) == EpsilonSlidingGC /\ EpsilonImplicitGC

\* the condition of line 474
WantsCollect(r) == r = NULL /\ EpsilonSlidingGC /\ EpsilonImplicitGC

\* allocate_work returns (lines 194-214) into allocate_or_collect_work:
\* after the first call line 474 decides; after the second, unblock follows.
AllocReturn(t) ==
  /\ Running(t)
  /\ pc[t] = "aw_ret"
  /\ slow' = [slow EXCEPT ![t] = NoSlow]
  /\ IF retry[t]
       THEN /\ pc' = [pc EXCEPT ![t] = "aoc_unblock"]
            /\ UNCHANGED <<op, size, res, retry, id, req>>
       ELSE IF WantsCollect(res[t])
         THEN /\ ReadReqId(t)
              /\ pc' = [pc EXCEPT ![t] = "vm_lock"]
              /\ UNCHANGED <<op, size, res, retry>>
         ELSE /\ pc' = [pc EXCEPT ![t] = "idle"]
              /\ op' = [op EXCEPT ![t] = "none"]
              /\ size' = [size EXCEPT ![t] = 0]
              /\ res' = [res EXCEPT ![t] = NULL]
              /\ UNCHANGED <<retry, id, req>>
  /\ UNCHANGED <<heapVars, heapLock, flagVars, tlabVars, ctrVars, objVars, req_id, lockerVars, gcVars,
                 allocated, ran, lastGC>>

(* ------------------------------------------------------------------ *)
(* GCLocker                                                            *)
(* ------------------------------------------------------------------ *)

\* GCLocker::block(), first half: take GCLocker's lock and announce the
\* pending request (line 476)
Block(t) ==
  /\ Running(t)
  /\ pc[t] = "aoc_block"
  /\ gclLock = 0
  /\ gclLock' = t
  /\ gcPending' = TRUE
  /\ pc' = [pc EXCEPT ![t] = "aoc_block_wait"]
  /\ UNCHANGED <<heapVars, heapLock, localVars, flagVars, tlabVars, ctrVars, objVars, reqVars, critical,
                 gcVars, histVars>>

\* what GCLocker::block() waits for before it returns
BlockMayReturn(t) == ~is_active

\* GCLocker::block(), second half: wait until no thread is in a critical
\* section; then the second allocate_work starts (line 477)
BlockWait(t) ==
  /\ Running(t)
  /\ pc[t] = "aoc_block_wait"
  /\ BlockMayReturn(t)
  /\ pc' = [pc EXCEPT ![t] = "aw_fast"]
  /\ retry' = [retry EXCEPT ![t] = TRUE]
  /\ UNCHANGED <<heapVars, heapLock, op, size, res, flagVars, tlabVars, ctrVars, objVars, reqVars,
                 lockerVars, gcVars, histVars>>

\* GCLocker::unblock() (line 478) and the return of line 480
Unblock(t) ==
  /\ Running(t)
  /\ pc[t] = "aoc_unblock"
  /\ gclLock = t
  /\ gcPending' = FALSE
  /\ gclLock' = 0
  /\ pc' = [pc EXCEPT ![t] = "idle"]
  /\ op' = [op EXCEPT ![t] = "none"]
  /\ size' = [size EXCEPT ![t] = 0]
  /\ res' = [res EXCEPT ![t] = NULL]
  /\ retry' = [retry EXCEPT ![t] = FALSE]
  /\ UNCHANGED <<heapVars, heapLock, flagVars, tlabVars, ctrVars, objVars, reqVars, critical, gcVars,
                 histVars>>

\* a pin taken while a request is in flight is remembered in its history
NotePin == [u \in Threads |->
              IF pc[u] \in VmPcs THEN [req[u] EXCEPT !.quiet = FALSE] ELSE req[u]]

\* pin_object (lines 889-893): GCLocker::enter. A nested entry only counts;
\* a first entry waits while a GC request is pending.
Pin(t) ==
  /\ Running(t)
  /\ pc[t] = "idle"
  /\ critical[t] < MaxCritical
  /\ IF ~EpsilonSlidingGC
       THEN UNCHANGED <<pc, critical, req>>
       ELSE IF critical[t] > 0 \/ ~gcPending
         THEN /\ critical' = [critical EXCEPT ![t] = @ + 1]
              /\ req' = NotePin
              /\ UNCHANGED pc
         ELSE /\ pc' = [pc EXCEPT ![t] = "pin_wait"]
              /\ UNCHANGED <<critical, req>>
  /\ UNCHANGED <<heapVars, heapLock, localVars, flagVars, tlabVars, ctrVars, objVars, reqVars, gcPending,
                 gclLock, gcVars, allocated, slow, ran, lastGC>>

\* GCLocker::enter_slow: wait for GCLocker's lock to be free, then enter
PinWait(t) ==
  /\ Running(t)
  /\ pc[t] = "pin_wait"
  /\ gclLock = 0
  /\ ~gcPending
  /\ critical' = [critical EXCEPT ![t] = @ + 1]
  /\ req' = NotePin
  /\ pc' = [pc EXCEPT ![t] = "idle"]
  /\ UNCHANGED <<heapVars, heapLock, localVars, flagVars, tlabVars, ctrVars, objVars, reqVars, gcPending,
                 gclLock, gcVars, allocated, slow, ran, lastGC>>

\* unpin_object (lines 895-899): GCLocker::exit
Unpin(t) ==
  /\ Running(t)
  /\ pc[t] = "idle"
  /\ critical[t] > 0
  /\ EpsilonSlidingGC
  /\ critical' = [critical EXCEPT ![t] = @ - 1]
  /\ UNCHANGED <<heapVars, heapLock, pc, localVars, flagVars, tlabVars, ctrVars, objVars, reqVars,
                 gcPending, gclLock, gcVars, histVars>>

(* ------------------------------------------------------------------ *)
(* EpsilonHeap::entry_collect, as the allocator sees it                *)
(* ------------------------------------------------------------------ *)

\* collect(cause) called by the VM thread at a safepoint (lines 328-330):
\* entry_collect runs without a VM_EpsilonCollect and without Heap_lock
DirectCollect ==
  /\ EpsilonSlidingGC
  /\ gcPhase = "idle"
  /\ AllSafe
  /\ gcPhase' = "entry"
  /\ gcOwner' = VMThread
  /\ UNCHANGED <<heapVars, heapLock, pc, localVars, flagVars, tlabVars, ctrVars, objVars, reqVars,
                 lockerVars, new_top, marked, histVars>>

\* entry_collect returns with the given outcome; the safepoint ends, and the
\* requesting thread goes on to doit_epilogue
GCReturn(outcome) ==
  /\ gcPhase' = "idle"
  /\ gcOwner' = VMThread
  /\ new_top' = NULL
  /\ marked' = {}
  /\ lastGC' = outcome
  /\ pc' = [u \in Threads |-> IF u = gcOwner THEN "vm_epilogue" ELSE pc[u]]
  /\ req' = [u \in Threads |->
               IF u = gcOwner THEN [req[u] EXCEPT !.state = outcome]
               ELSE IF pc[u] = "vm_lock" THEN [req[u] EXCEPT !.seen = @ \cup {outcome}]
               ELSE req[u]]

\* LockerStopsCollect with the check left out
LockerStopsCollect_Never == FALSE

\* LockerStopsCollect that remembers the last skipped collection
LockerStopsCollect_Sticky == is_active \/ lastGC = "pinned"

\* the early exit of lines 686-688: TRUE when entry_collect gives up
LockerStopsCollect == is_active

GCEntry ==
  /\ gcPhase = "entry"
  /\ IF LockerStopsCollect
       THEN /\ GCReturn("pinned")
       ELSE /\ gcPhase' = "prologue"
            /\ UNCHANGED <<gcOwner, new_top, marked, pc, req, lastGC>>
  /\ UNCHANGED <<heapVars, heapLock, localVars, flagVars, tlabVars, ctrVars, objVars, reqVars, lockerVars,
                 allocated, slow, ran>>

\* Step 0 (lines 699-714): commit the bitmap; give up when that fails
GCPrologue ==
  /\ gcPhase = "prologue"
  /\ \E commit_ok \in BOOLEAN :
       IF ~commit_ok
         THEN /\ GCReturn("nocommit")
         ELSE /\ gcPhase' = "mark"
              /\ UNCHANGED <<gcOwner, new_top, marked, pc, req, lastGC>>
  /\ UNCHANGED <<heapVars, heapLock, localVars, flagVars, tlabVars, ctrVars, objVars, reqVars, lockerVars,
                 allocated, slow, ran>>

\* Step 1 (lines 716-754): the objects reachable from the roots get marked;
\* which ones they are is the mutators' business
GCMark ==
  /\ gcPhase = "mark"
  /\ \E live \in SUBSET (1..Len(allocated)) : marked' = live
  /\ gcPhase' = "calc"
  /\ UNCHANGED <<heapVars, heapLock, pc, localVars, flagVars, tlabVars, ctrVars, objVars, reqVars,
                 lockerVars, gcOwner, new_top, histVars>>

\* the survivors, slid to the left in address order
RECURSIVE Slide(_, _, _)
Slide(objs, live, at) ==
  IF objs = <<>> THEN <<>>
  ELSE LET k == Len(allocated) - Len(objs) + 1
       IN  IF k \in live
             THEN <<[a |-> at, n |-> Head(objs).n]>> \o Slide(Tail(objs), live, at + Head(objs).n)
             ELSE Slide(Tail(objs), live, at)

\* the compact point after the walk of Step 2 (lines 578-589)
CompactPoint(live) ==
  LET s == Slide(allocated, live, bottom)
  IN  IF s = <<>> THEN bottom ELSE s[Len(s)].a + s[Len(s)].n

\* Step 2 (lines 764-778)
GCCalc ==
  /\ gcPhase = "calc"
  /\ new_top' = CompactPoint(marked)
  /\ gcPhase' = "adjust"
  /\ UNCHANGED <<heapVars, heapLock, pc, localVars, flagVars, tlabVars, ctrVars, objVars, reqVars,
                 lockerVars, gcOwner, marked, histVars>>

\* Step 3 (lines 780-796)
GCAdjust ==
  /\ gcPhase = "adjust"
  /\ gcPhase' = "move"
  /\ UNCHANGED <<heapVars, heapLock, pc, localVars, flagVars, tlabVars, ctrVars, objVars, reqVars,
                 lockerVars, gcOwner, new_top, marked, histVars>>

\* Step 4 (lines 798-810): move the objects, then _space->set_top(new_top)
GCMove ==
  /\ gcPhase = "move"
  /\ top' = new_top
  /\ allocated' = Slide(allocated, marked, bottom)
  /\ gcPhase' = "epilogue"
  /\ UNCHANGED <<end, committed, heapLock, pc, localVars, flagVars, tlabVars, ctrVars, objVars, reqVars,
                 lockerVars, gcOwner, new_top, marked, slow, req, ran, lastGC>>

\* ShrinkBytes measured from the bottom of the space instead of new_top
ShrinkBytes_FromBottom == (end - bottom) * HeapWordSize

\* the argument of shrink_by (line 871)
ShrinkBytes == (end - new_top) * HeapWordSize

\* Step 5 (lines 812-874): with EpsilonUncommit, give the tail back
GCEpilogue ==
  /\ gcPhase = "epilogue"
  /\ IF EpsilonUncommit
       THEN /\ committed' = shrink_by(ShrinkBytes)
            /\ end' = VirtualSpaceHigh(shrink_by(ShrinkBytes))
       ELSE UNCHANGED <<committed, end>>
  /\ GCReturn("full")
  /\ UNCHANGED <<top, heapLock, localVars, flagVars, tlabVars, ctrVars, objVars, reqVars, lockerVars,
                 allocated, slow, ran>>

\* lines 83-84, and no allocate_work has got to line 194
CtrUnused ==
  /\ last_counter_update = 0
  /\ last_heap_print = 0
  /\ used_local = [t \in Threads |-> 0]
  /\ last_local = [t \in Threads |-> 0]
  /\ winners = [mark \in {"counter", "print"} |-> [thread |-> 0, last |-> 0]]

(* ------------------------------------------------------------------ *)
(* TLAB sizing: EpsilonHeap::allocate_new_tlab                          *)
(* ------------------------------------------------------------------ *)

\* EpsilonTLABElasticity is a double; the model keeps it in halves, which
\* a double holds exactly
ElasticityUnit == 2
Elasticities == {ElasticityUnit, ElasticityUnit + 1, 2 * ElasticityUnit}

\* no allocate_new_tlab call yet
NoTlab ==
  [thread |-> 0, min_size |-> 0, requested_size |-> 0, ergo_before |-> 0,
   last_before |-> 0, time |-> 0, decayed |-> FALSE, ergo_tlab |-> 0,
   fits |-> TRUE, grown |-> 0, size |-> 0, res |-> NULL, actual_size |-> 0]

\* TLAB sizing out of use: the flags off, no thread has had a TLAB
TlabUnused ==
  /\ EpsilonElasticTLAB = FALSE
  /\ EpsilonElasticTLABDecay = FALSE
  /\ EpsilonTLABElasticity = ElasticityUnit
  /\ max_tlab_size = MinObjAlignment
  /\ decay_time_ns = 1
  /\ ergo_tlab_size = [t \in Threads |-> 0]
  /\ last_tlab_time = [t \in Threads |-> 0]
  /\ javaTimeNanos = 1
  /\ tlab = NoTlab

\* clamp that honors the lower boundary only
clamp_LowerOnly(v, lo, hi) == IF v < lo THEN lo ELSE v

\* clamp(size, min_size, _max_tlab_size) (line 255)
clamp(v, lo, hi) == IF v < lo THEN lo ELSE IF v > hi THEN hi ELSE v

\* align_up(size, MinObjAlignment) (line 258)
align_up(v, a) == ((v + a - 1) \div a) * a

\* is_object_aligned(size) (line 261)
is_object_aligned(v) == v % MinObjAlignment = 0

\* (size_t) (ergo_tlab * EpsilonTLABElasticity) (line 250): the product,
\* truncated
ElasticSize(ergo) == (ergo * EpsilonTLABElasticity) \div ElasticityUnit

\* Decays that takes a thread that never had a TLAB for one that had one at
\* time 0
Decays_NeverAllocatedToo(last_time, time) ==
  /\ EpsilonElasticTLAB
  /\ EpsilonElasticTLABDecay
  /\ time - last_time > decay_time_ns

\* lines 239-243: the thread had a TLAB before and that was more than
\* _decay_time_ns ago
Decays(last_time, time) ==
  /\ EpsilonElasticTLAB
  /\ EpsilonElasticTLABDecay
  /\ last_time # 0
  /\ time - last_time > decay_time_ns

\* ErgoOnReturn that keeps the ergonomic size when the allocation fails
ErgoOnReturn_KeptOnFailure(t, ok, fits, decayed, sz) ==
  IF ok /\ EpsilonElasticTLAB /\ ~fits
    THEN [ergo_tlab_size EXCEPT ![t] = sz]
    ELSE IF decayed THEN [ergo_tlab_size EXCEPT ![t] = 0]
    ELSE ergo_tlab_size

\* the ergonomic sizes when allocate_new_tlab returns: the reset of line 242
\* and the updates of lines 291-300
ErgoOnReturn(t, ok, fits, decayed, sz) ==
  IF ok
    THEN IF EpsilonElasticTLAB /\ ~fits
           THEN [ergo_tlab_size EXCEPT ![t] = sz]
           ELSE IF decayed THEN [ergo_tlab_size EXCEPT ![t] = 0]
           ELSE ergo_tlab_size
    ELSE IF EpsilonElasticTLAB
           THEN [ergo_tlab_size EXCEPT ![t] = 0]
           ELSE ergo_tlab_size

\* EpsilonHeap::allocate_new_tlab (lines 217-303) for thread t. The heap is
\* committed in full and EpsilonSlidingGC is off, so allocate_or_collect_work
\* (lines 472-481) is allocate_work, which is par_allocate (line 152) or,
\* with nothing left to expand into, nullptr.
allocate_new_tlab(t, min_size, requested_size) ==
  LET last_time == last_tlab_time[t]
      time      == IF EpsilonElasticTLAB /\ EpsilonElasticTLABDecay
                     THEN javaTimeNanos ELSE 0
      decayed   == Decays(last_time, time)
      ergo_tlab == IF ~EpsilonElasticTLAB THEN requested_size
                   ELSE IF decayed THEN 0
                   ELSE ergo_tlab_size[t]
      fits      == IF EpsilonElasticTLAB THEN requested_size <= ergo_tlab
                   ELSE TRUE
      grown     == IF fits THEN requested_size ELSE ElasticSize(ergo_tlab)
      sz        == align_up(clamp(grown, min_size, max_tlab_size),
                            MinObjAlignment)
      ok        == par_allocate_fits(sz)
  IN  /\ min_size <= max_tlab_size
      /\ top' = IF ok THEN top + sz ELSE top
      /\ last_tlab_time' =
           IF ok /\ EpsilonElasticTLABDecay
             THEN [last_tlab_time EXCEPT ![t] = time]
             ELSE last_tlab_time
      /\ ergo_tlab_size' = ErgoOnReturn(t, ok, fits, decayed, sz)
      /\ tlab' = [thread |-> t, min_size |-> min_size,
                  requested_size |-> requested_size,
                  ergo_before |-> ergo_tlab_size[t],
                  last_before |-> last_time, time |-> time,
                  decayed |-> decayed, ergo_tlab |-> ergo_tlab,
                  fits |-> fits, grown |-> grown, size |-> sz,
                  res |-> IF ok THEN top ELSE NULL,
                  actual_size |-> IF ok THEN sz ELSE 0]
      /\ UNCHANGED <<end, committed, heapLock, pc, localVars, flagVars, ctrVars,
                     tlabFlags, javaTimeNanos, objVars, reqVars, lockerVars,
                     gcVars, histVars>>

\* time passes: os::javaTimeNanos is monotonic
Tick ==
  /\ javaTimeNanos < MaxTime
  /\ javaTimeNanos' = javaTimeNanos + 1
  /\ UNCHANGED <<heapVars, heapLock, pc, localVars, flagVars, ctrVars, tlabFlags,
                 ergo_tlab_size, last_tlab_time, tlab, objVars, reqVars,
                 lockerVars, gcVars, histVars>>

\* a heap committed in full, no collector, no thread has had a TLAB;
\* _max_tlab_size is object-aligned (line 76)
InitTlab ==
  /\ top = bottom
  /\ committed = TlabHeapWords * HeapWordSize
  /\ end = bottom + TlabHeapWords
  /\ heapLock = 0
  /\ pc = [t \in Threads |-> "idle"]
  /\ op = [t \in Threads |-> "none"]
  /\ size = [t \in Threads |-> 0]
  /\ res = [t \in Threads |-> NULL]
  /\ retry = [t \in Threads |-> FALSE]
  /\ EpsilonSlidingGC = FALSE
  /\ EpsilonImplicitGC = FALSE
  /\ EpsilonUncommit = FALSE
  /\ req_id = 0
  /\ id = [t \in Threads |-> 0]
  /\ critical = [t \in Threads |-> 0]
  /\ gcPending = FALSE
  /\ gclLock = 0
  /\ gcPhase = "idle"
  /\ gcOwner = VMThread
  /\ new_top = NULL
  /\ marked = {}
  /\ allocated = <<>>
  /\ slow = [t \in Threads |-> NoSlow]
  /\ req = [t \in Threads |-> NoReq]
  /\ ran = {}
  /\ lastGC = "none"
  /\ mem = <<>>
  /\ roots = <<>>
  /\ bitmap = {}
  /\ mstack = <<>>
  /\ pmarks = <<>>
  /\ cursor = NULL
  /\ compact_point = NULL
  /\ cycles = 0
  /\ mem0 = <<>>
  /\ roots0 = <<>>
  /\ top0 = top
  /\ end0 = end
  /\ bits0 = {}
  /\ commit = "none"
  /\ pushLog = <<>>
  /\ mem3 = mem
  /\ fwdLog = <<>>
  /\ EpsilonElasticTLAB \in BOOLEAN
  /\ EpsilonElasticTLABDecay \in BOOLEAN
  /\ EpsilonTLABElasticity \in Elasticities
  /\ max_tlab_size \in {w \in MinObjAlignment..MaxTlabWords : is_object_aligned(w)}
  /\ decay_time_ns \in 1..MaxDecay
  /\ ergo_tlab_size = [t \in Threads |-> 0]
  /\ last_tlab_time = [t \in Threads |-> 0]
  /\ javaTimeNanos = 1
  /\ tlab = NoTlab
  /\ CtrUnused

NextTlab ==
  \/ \E t \in Allocators : \E min_size \in 1..MaxMinWords :
       \E requested_size \in 1..MaxTlabReq :
         allocate_new_tlab(t, min_size, requested_size)
  \/ Tick

SpecTlab == InitTlab /\ [][NextTlab]_vars

(* ------------------------------------------------------------------ *)
(* The watermarks of allocate_work (lines 194-211)                     *)
(* ------------------------------------------------------------------ *)

MIN2(a, b) == IF a < b THEN a ELSE b

\* _step_counter_update (line 77) and _step_heap_print (line 78)
step_counter_update == MIN2(max_capacity \div 16, EpsilonUpdateCountersStep)
step_heap_print == max_capacity \div EpsilonPrintHeapSteps

\* a - b in size_t
SizeSub(a, b) == (a - b + 2^SizeBits) % 2^SizeBits

\* used - last >= step (lines 199 and 207), in size_t
StepReached(u, last, step) == SizeSub(u, last) >= step

\* allocate_work(size, verbose = true) is called
CtrStart(t, n) ==
  /\ pc[t] = "idle"
  /\ gcPhase = "idle"
  /\ pc' = [pc EXCEPT ![t] = "cw_alloc"]
  /\ size' = [size EXCEPT ![t] = n]
  /\ res' = [res EXCEPT ![t] = NULL]
  /\ UNCHANGED <<heapVars, heapLock, op, retry, flagVars, tlabVars, ctrVars, objVars,
                 reqVars, lockerVars, gcVars, histVars>>

\* the loop of lines 150-192 over a heap committed in full: par_allocate
\* (line 152) or, with nothing to expand into, return nullptr (line 187),
\* which leaves the watermarks alone
CtrAllocate(t) ==
  /\ pc[t] = "cw_alloc"
  /\ IF par_allocate_fits(size[t])
       THEN /\ top' = top + size[t]
            /\ res' = [res EXCEPT ![t] = top]
            /\ pc' = [pc EXCEPT ![t] = "cw_used"]
       ELSE /\ pc' = [pc EXCEPT ![t] = "cw_null"]
            /\ UNCHANGED <<top, res>>
  /\ UNCHANGED <<end, committed, heapLock, op, size, retry, flagVars, tlabVars, ctrVars,
                 objVars, reqVars, lockerVars, gcVars, histVars>>

\* return nullptr (line 187)
CtrReturnNull(t) ==
  /\ pc[t] = "cw_null"
  /\ pc' = [pc EXCEPT ![t] = "idle"]
  /\ size' = [size EXCEPT ![t] = 0]
  /\ UNCHANGED <<heapVars, heapLock, op, res, retry, flagVars, tlabVars, ctrVars, objVars,
                 reqVars, lockerVars, gcVars, histVars>>

\* size_t used = _space->used() (line 194)
CtrReadUsed(t) ==
  /\ pc[t] = "cw_used"
  /\ used_local' = [used_local EXCEPT ![t] = used]
  /\ pc' = [pc EXCEPT ![t] = "cw_counter_load"]
  /\ UNCHANGED <<heapVars, heapLock, localVars, flagVars, tlabVars, last_counter_update,
                 last_heap_print, last_local, winners, objVars, reqVars, lockerVars,
                 gcVars, histVars>>

\* size_t last = _last_counter_update (line 198)
CtrLoadCounter(t) ==
  /\ pc[t] = "cw_counter_load"
  /\ last_local' = [last_local EXCEPT ![t] = last_counter_update]
  /\ pc' = [pc EXCEPT ![t] = "cw_counter_cas"]
  /\ UNCHANGED <<heapVars, heapLock, localVars, flagVars, tlabVars, last_counter_update,
                 last_heap_print, used_local, winners, objVars, reqVars, lockerVars,
                 gcVars, histVars>>

\* line 199: the comparison, the cmpxchg and, when it succeeds, the hook
CtrCasCounter(t) ==
  /\ pc[t] = "cw_counter_cas"
  /\ IF /\ StepReached(used_local[t], last_local[t], step_counter_update)
        /\ last_counter_update = last_local[t]
       THEN /\ last_counter_update' = used_local[t]
            /\ winners' = [winners EXCEPT
                             !["counter"] = [thread |-> t, last |-> last_local[t]]]
       ELSE UNCHANGED <<last_counter_update, winners>>
  /\ pc' = [pc EXCEPT ![t] = "cw_print_load"]
  /\ UNCHANGED <<heapVars, heapLock, localVars, flagVars, tlabVars, last_heap_print,
                 used_local, last_local, objVars, reqVars, lockerVars, gcVars,
                 histVars>>

\* size_t last = _last_heap_print (line 206)
CtrLoadPrint(t) ==
  /\ pc[t] = "cw_print_load"
  /\ last_local' = [last_local EXCEPT ![t] = last_heap_print]
  /\ pc' = [pc EXCEPT ![t] = "cw_print_cas"]
  /\ UNCHANGED <<heapVars, heapLock, localVars, flagVars, tlabVars, last_counter_update,
                 last_heap_print, used_local, winners, objVars, reqVars, lockerVars,
                 gcVars, histVars>>

\* line 207: the comparison, the cmpxchg and, when it succeeds, the print;
\* then allocate_work returns
CtrCasPrint(t) ==
  /\ pc[t] = "cw_print_cas"
  /\ IF /\ StepReached(used_local[t], last_local[t], step_heap_print)
        /\ last_heap_print = last_local[t]
       THEN /\ last_heap_print' = used_local[t]
            /\ winners' = [winners EXCEPT
                             !["print"] = [thread |-> t, last |-> last_local[t]]]
       ELSE UNCHANGED <<last_heap_print, winners>>
  /\ pc' = [pc EXCEPT ![t] = "idle"]
  /\ size' = [size EXCEPT ![t] = 0]
  /\ res' = [res EXCEPT ![t] = NULL]
  /\ used_local' = [used_local EXCEPT ![t] = 0]
  /\ last_local' = [last_local EXCEPT ![t] = 0]
  /\ UNCHANGED <<heapVars, heapLock, op, retry, flagVars, tlabVars, last_counter_update,
                 objVars, reqVars, lockerVars, gcVars, histVars>>

\* a collection at a safepoint, no thread inside allocate_work: what is left
\* of entry_collect for the space is set_top(new_top) (line 809), with new_top
\* at or below top
CtrCollect(nt) ==
  /\ \A t \in Threads : pc[t] = "idle"
  /\ cycles < MaxCycles
  /\ nt < top
  /\ top' = nt
  /\ cycles' = cycles + 1
  /\ UNCHANGED <<end, committed, heapLock, pc, localVars, flagVars, tlabVars, ctrVars,
                 reqVars, lockerVars, gcVars, histVars, mem, roots, bitmap, mstack,
                 pmarks, cursor, compact_point, startVars, fwdLog>>

\* a heap committed in full, nothing allocated, the watermarks at zero
InitCounters ==
  /\ top = bottom
  /\ committed = max_capacity
  /\ end = VirtualSpaceHigh(max_capacity)
  /\ heapLock = 0
  /\ pc = [t \in Threads |-> "idle"]
  /\ op = [t \in Threads |-> "none"]
  /\ size = [t \in Threads |-> 0]
  /\ res = [t \in Threads |-> NULL]
  /\ retry = [t \in Threads |-> FALSE]
  /\ EpsilonSlidingGC = TRUE
  /\ EpsilonImplicitGC = FALSE
  /\ EpsilonUncommit = FALSE
  /\ req_id = 0
  /\ id = [t \in Threads |-> 0]
  /\ critical = [t \in Threads |-> 0]
  /\ gcPending = FALSE
  /\ gclLock = 0
  /\ gcPhase = "idle"
  /\ gcOwner = VMThread
  /\ new_top = NULL
  /\ marked = {}
  /\ allocated = <<>>
  /\ slow = [t \in Threads |-> NoSlow]
  /\ req = [t \in Threads |-> NoReq]
  /\ ran = {}
  /\ lastGC = "none"
  /\ mem = <<>>
  /\ roots = <<>>
  /\ bitmap = {}
  /\ mstack = <<>>
  /\ pmarks = <<>>
  /\ cursor = NULL
  /\ compact_point = NULL
  /\ cycles = 0
  /\ mem0 = <<>>
  /\ roots0 = <<>>
  /\ top0 = top
  /\ end0 = end
  /\ bits0 = {}
  /\ commit = "none"
  /\ pushLog = <<>>
  /\ mem3 = mem
  /\ fwdLog = <<>>
  /\ TlabUnused
  /\ CtrUnused

NextCounters ==
  \/ \E t \in Allocators : \E n \in 1..MaxReqWords : CtrStart(t, n)
  \/ \E t \in Allocators : CtrAllocate(t)
  \/ \E t \in Allocators : CtrReturnNull(t)
  \/ \E t \in Allocators : CtrReadUsed(t)
  \/ \E t \in Allocators : CtrLoadCounter(t)
  \/ \E t \in Allocators : CtrCasCounter(t)
  \/ \E t \in Allocators : CtrLoadPrint(t)
  \/ \E t \in Allocators : CtrCasPrint(t)
  \/ \E nt \in bottom..(bottom + MaxHeapWords) : CtrCollect(nt)

SpecCounters == InitCounters /\ [][NextCounters]_vars

(* ------------------------------------------------------------------ *)
(* The allocator-level specification                                   *)
(* ------------------------------------------------------------------ *)

Init ==
  /\ top = bottom
  /\ committed = InitialHeapWords * HeapWordSize
  /\ end = VirtualSpaceHigh(InitialHeapWords * HeapWordSize)
  /\ heapLock = 0
  /\ pc = [t \in Threads |-> "idle"]
  /\ op = [t \in Threads |-> "none"]
  /\ size = [t \in Threads |-> 0]
  /\ res = [t \in Threads |-> NULL]
  /\ retry = [t \in Threads |-> FALSE]
  /\ EpsilonSlidingGC \in BOOLEAN
  /\ EpsilonImplicitGC \in BOOLEAN
  /\ EpsilonUncommit \in BOOLEAN
  /\ req_id = 0
  /\ id = [t \in Threads |-> 0]
  /\ critical = [t \in Threads |-> 0]
  /\ gcPending = FALSE
  /\ gclLock = 0
  /\ gcPhase = "idle"
  /\ gcOwner = VMThread
  /\ new_top = NULL
  /\ marked = {}
  /\ allocated = <<>>
  /\ slow = [t \in Threads |-> NoSlow]
  /\ req = [t \in Threads |-> NoReq]
  /\ ran = {}
  /\ lastGC = "none"
  /\ mem = <<>>
  /\ roots = <<>>
  /\ bitmap = {}
  /\ mstack = <<>>
  /\ pmarks = <<>>
  /\ cursor = NULL
  /\ compact_point = NULL
  /\ cycles = 0
  /\ mem0 = <<>>
  /\ roots0 = <<>>
  /\ top0 = top
  /\ end0 = end
  /\ bits0 = {}
  /\ commit = "none"
  /\ pushLog = <<>>
  /\ mem3 = mem
  /\ fwdLog = <<>>
  /\ TlabUnused
  /\ CtrUnused

\* Allocators allocate; collections come from failed allocations
Next ==
  \/ \E t \in Allocators : \E n \in 1..MaxReqWords : StartAlloc(t, n)
  \/ \E t \in Allocators : AllocFast(t)
  \/ \E t \in Allocators : AllocLock(t)
  \/ \E t \in Allocators : AllocLocked(t)
  \/ \E t \in Allocators : AllocExpand(t)
  \/ \E t \in Allocators : AllocReturn(t)
  \/ \E t \in Allocators : VmPrologue(t)
  \/ \E t \in Allocators : SafepointBegin(t)
  \/ \E t \in Allocators : VmEpilogue(t)
  \/ \E t \in Allocators : VmReturn(t)
  \/ \E t \in Allocators : Block(t)
  \/ \E t \in Allocators : BlockWait(t)
  \/ \E t \in Allocators : Unblock(t)
  \/ GCEntry
  \/ GCPrologue
  \/ GCMark
  \/ GCCalc
  \/ GCAdjust
  \/ GCMove
  \/ GCEpilogue

Spec == Init /\ [][Next]_vars

\* the steps of allocate_work for thread t other than taking the Heap_lock,
\* with expand_by succeeding
AllocStep(t) ==
  \/ AllocFast(t)
  \/ AllocLocked(t)
  \/ AllocExpandWith(t, TRUE)
  \/ AllocReturn(t)

\* Allocators call allocate_work again and again, no collector
NextAllocFair ==
  \/ \E t \in Allocators : \E n \in 1..MaxReqWords : StartAlloc(t, n)
  \/ \E t \in Allocators : AllocLock(t)
  \/ \E t \in Allocators : AllocStep(t)

\* every thread inside allocate_work keeps running, and a thread that waits
\* for the Heap_lock gets it at some time when it is free
FairAlloc ==
  /\ \A t \in Allocators : WF_vars(AllocStep(t))
  /\ \A t \in Allocators : SF_vars(AllocLock(t))

InitAllocFair == Init /\ ~EpsilonSlidingGC

SpecAllocFair == InitAllocFair /\ [][NextAllocFair]_vars /\ FairAlloc

(* ------------------------------------------------------------------ *)
(* The specification of the GC request coalescer and the pin lock      *)
(* ------------------------------------------------------------------ *)

\* Java threads call collect and pin and unpin objects; the VM thread calls
\* collect at safepoints of its own
NextCollect ==
  \/ \E t \in Threads : StartCollect(t)
  \/ \E t \in Threads : CollectDispatch(t)
  \/ \E t \in Threads : VmPrologue(t)
  \/ \E t \in Threads : SafepointBegin(t)
  \/ \E t \in Threads : VmEpilogue(t)
  \/ \E t \in Threads : VmReturn(t)
  \/ \E t \in Threads : Pin(t)
  \/ \E t \in Threads : Unpin(t)
  \/ DirectCollect
  \/ GCEntry
  \/ GCPrologue
  \/ GCMark
  \/ GCCalc
  \/ GCAdjust
  \/ GCMove
  \/ GCEpilogue

SpecCollect == Init /\ [][NextCollect]_vars

(* ------------------------------------------------------------------ *)
(* The specification of allocate and collect calls                     *)
(* ------------------------------------------------------------------ *)

\* the VM thread calls collect at a safepoint of its own, before any other
\* collection
DirectCollectFirst ==
  /\ lastGC = "none"
  /\ \A t \in Threads : pc[t] \notin VmPcs
  /\ DirectCollect

\* Allocators allocate and call collect, with any setting of the flags; the
\* VM thread calls collect at a safepoint of its own
NextCalls ==
  \/ \E t \in Allocators : \E n \in 1..MaxReqWords : StartAlloc(t, n)
  \/ \E t \in Allocators : AllocFast(t)
  \/ \E t \in Allocators : AllocLock(t)
  \/ \E t \in Allocators : AllocLocked(t)
  \/ \E t \in Allocators : AllocExpand(t)
  \/ \E t \in Allocators : AllocReturn(t)
  \/ \E t \in Allocators : StartCollect(t)
  \/ \E t \in Allocators : CollectDispatch(t)
  \/ \E t \in Allocators : VmPrologue(t)
  \/ \E t \in Allocators : SafepointBegin(t)
  \/ \E t \in Allocators : VmEpilogue(t)
  \/ \E t \in Allocators : VmReturn(t)
  \/ \E t \in Allocators : Block(t)
  \/ \E t \in Allocators : BlockWait(t)
  \/ \E t \in Allocators : Unblock(t)
  \/ DirectCollectFirst
  \/ GCEntry
  \/ GCPrologue
  \/ GCMark
  \/ GCCalc
  \/ GCAdjust
  \/ GCMove
  \/ GCEpilogue

SpecCalls == Init /\ [][NextCalls]_vars

(* ------------------------------------------------------------------ *)
(* The specification of allocation with pinned objects                 *)
(* ------------------------------------------------------------------ *)

\* the steps of a call that thread t is in, and the release of its pin
ThreadStep(t) ==
  \/ AllocFast(t)
  \/ AllocLock(t)
  \/ AllocLocked(t)
  \/ AllocExpand(t)
  \/ AllocReturn(t)
  \/ CollectDispatch(t)
  \/ VmPrologue(t)
  \/ SafepointBegin(t)
  \/ VmEpilogue(t)
  \/ VmReturn(t)
  \/ Block(t)
  \/ BlockWait(t)
  \/ Unblock(t)
  \/ PinWait(t)
  \/ Unpin(t)

\* the steps of the VM thread inside entry_collect
GCStep ==
  \/ GCEntry
  \/ GCPrologue
  \/ GCMark
  \/ GCCalc
  \/ GCAdjust
  \/ GCMove
  \/ GCEpilogue

\* Allocators allocate, call collect, and pin and unpin objects
NextPinned ==
  \/ \E t \in Allocators : \E n \in 1..MaxReqWords : StartAlloc(t, n)
  \/ \E t \in Allocators : StartCollect(t)
  \/ \E t \in Allocators : Pin(t)
  \/ \E t \in Allocators : ThreadStep(t)
  \/ GCStep

\* every thread that can run keeps running, and so does the VM thread; an
\* expansion that is retried again and again succeeds in the end
FairPinned ==
  /\ \A t \in Allocators : WF_vars(ThreadStep(t))
  /\ \A t \in Allocators : SF_vars(AllocExpandWith(t, TRUE))
  /\ WF_vars(GCStep)

\* the configuration with the sliding collector and implicit collections
InitPinned == Init /\ EpsilonSlidingGC /\ EpsilonImplicitGC

SpecPinned == InitPinned /\ [][NextPinned]_vars /\ FairPinned

(* ------------------------------------------------------------------ *)
(* The heap of objects the mark-compact cycle works on                 *)
(* ------------------------------------------------------------------ *)

\* the words of the heap used by the cycle
HeapAddrs == bottom .. (bottom + GCHeapWords - 1)

\* the object inspector: an object is a mark word, a klass word and the
\* fields its klass gives it; a leaf has none, a node has two references,
\* a data object has a reference and a word that is not a reference
Klasses == {KLeaf, KNode, KData}
KlassSize(k) == IF k \in {KNode, KData} THEN 2 * MinObjAlignment ELSE MinObjAlignment
KlassRefOffsets(k) == IF k = KNode THEN <<2, 3>> ELSE IF k = KData THEN <<2>> ELSE <<>>

\* the values of a data word: one of them reads like the address of an object
DataWords == {7, bottom + MinObjAlignment}

\* a word of memory; reads outside the heap give 0
Word(m, a) == IF a \in DOMAIN m THEN m[a] ELSE 0

\* obj->size()
ObjSize(m, obj) == KlassSize(Word(m, obj + 1))

\* RefSlots that stops after the first reference
RefSlots_FirstOnly(m, obj) ==
  LET offs == KlassRefOffsets(Word(m, obj + 1))
  IN  [i \in 1..(IF Len(offs) > 0 THEN 1 ELSE 0) |-> obj + offs[i]]

\* the reference slots obj->oop_iterate visits, in field order
RefSlots(m, obj) ==
  LET offs == KlassRefOffsets(Word(m, obj + 1))
  IN  [i \in 1..Len(offs) |-> obj + offs[i]]

\* the values oop_load reads from those slots
RefValues(m, obj) ==
  LET slots == RefSlots(m, obj)
  IN  [i \in 1..Len(slots) |-> Word(m, slots[i])]

\* the forwarding record kept in the mark word
ForwardingMark(to) == 4 * to + 3
is_forwarded(m, obj) == Word(m, obj) % 4 = 3
forwardee(m, obj) == Word(m, obj) \div 4

\* markWord::must_be_preserved: any mark that init_mark would not rebuild
must_be_preserved(mark) == mark # MarkPrototype

\* MarkBitMap::get_next_marked_addr(from, limit)
get_next_marked_addr(bits, from, limit) ==
  LET s == {a \in bits : a >= from /\ a < limit}
  IN  IF s = {} THEN limit ELSE CHOOSE a \in s : \A b \in s : a <= b

\* EpsilonScanOopClosure::do_oop_work (lines 541-558) on a loaded value o;
\* st is the bitmap and the mark stack
ScanOop(st, o) ==
  IF o # NULL /\ o \notin st.bits
    THEN [bits |-> st.bits \cup {o}, stack |-> Append(st.stack, o)]
    ELSE st

\* the closure applied to a sequence of loaded values, in order
RECURSIVE ScanOops(_, _)
ScanOops(st, os) ==
  IF os = <<>> THEN st ELSE ScanOops(ScanOop(st, Head(os)), Tail(os))

\* one turn of the loop of lines 740-744: pop an object and scan its fields
ScanTop(st, m) ==
  LET n   == Len(st.stack)
      obj == st.stack[n]
  IN  ScanOops([bits |-> st.bits, stack |-> SubSeq(st.stack, 1, n - 1)],
               RefValues(m, obj))

\* the loop of lines 740-744 (and 849-853) run until the stack is empty
RECURSIVE DrainStack(_, _)
DrainStack(st, m) ==
  IF st.stack = <<>> THEN st ELSE DrainStack(ScanTop(st, m), m)

\* AdjustOop that leaves the slot as it is
AdjustOop_Skip(m, o) == o

\* EpsilonAdjustPointersOopClosure::do_oop_work (lines 599-614): the value
\* the slot holds afterwards
AdjustOop(m, o) ==
  IF o # NULL /\ is_forwarded(m, o) THEN forwardee(m, o) ELSE o

\* conjoint_words that copies the last word first, each word read when it
\* is its turn
RECURSIVE conjoint_words_Backward(_, _, _, _)
conjoint_words_Backward(m, from, to, n) ==
  IF n = 0 THEN m
  ELSE conjoint_words_Backward([m EXCEPT ![to + n - 1] = Word(m, from + n - 1)],
                               from, to, n - 1)

\* Copy::aligned_conjoint_words(from, to, n): the words move as by memmove
conjoint_words(m, from, to, n) ==
  [a \in DOMAIN m |-> IF a >= to /\ a < to + n THEN Word(m, from + (a - to)) ELSE m[a]]

\* PreservedMarks::restore: every saved mark goes back to its object
RECURSIVE restore(_, _)
restore(m, pm) ==
  IF pm = <<>> THEN m
  ELSE restore([m EXCEPT ![Head(pm).obj] = Head(pm).mark], Tail(pm))

\* the heaps a cycle can start from: objects tile [bottom, top)
RECURSIVE LayoutWords(_)
LayoutWords(ks) ==
  IF ks = <<>> THEN 0 ELSE KlassSize(Head(ks)) + LayoutWords(Tail(ks))

Layouts ==
  {ks \in UNION {[1..n -> Klasses] : n \in 0..(GCHeapWords \div MinObjAlignment)} :
     LayoutWords(ks) <= GCHeapWords}

StartOf(ks, i) == bottom + LayoutWords(SubSeq(ks, 1, i - 1))
Starts(ks) == {StartOf(ks, i) : i \in 1..Len(ks)}

\* the objects of a layout: each with any mark and, for a node, any targets
ObjChoices(k, targets) ==
  IF k = KNode
    THEN [klass : {k}, mark : {MarkPrototype, MarkHashed}, f : [1..2 -> targets]]
    ELSE IF k = KData
    THEN [klass : {k}, mark : {MarkPrototype, MarkHashed},
          f : {<<r, d>> : r \in targets, d \in DataWords}]
    ELSE [klass : {k}, mark : {MarkPrototype, MarkHashed}, f : {<<>>}]

RECURSIVE ObjSeqs(_, _)
ObjSeqs(ks, targets) ==
  IF ks = <<>> THEN {<<>>}
  ELSE {<<o>> \o rest : o \in ObjChoices(Head(ks), targets),
                        rest \in ObjSeqs(Tail(ks), targets)}

\* the memory that holds the objects os laid out as ks
BuildHeap(ks, os) ==
  [a \in HeapAddrs |->
     IF a >= bottom + LayoutWords(ks) THEN 0
     ELSE LET i   == CHOOSE j \in 1..Len(ks) :
                       StartOf(ks, j) <= a /\ a < StartOf(ks, j) + KlassSize(ks[j])
              off == a - StartOf(ks, i)
          IN  IF off = 0 THEN os[i].mark
              ELSE IF off = 1 THEN os[i].klass
              ELSE os[i].f[off - 1]]

(* ------------------------------------------------------------------ *)
(* entry_collect, object by object                                     *)
(* ------------------------------------------------------------------ *)

\* what the cycle leaves alone
mutatorVars == <<heapLock, pc, localVars, flagVars, tlabVars, ctrVars, reqVars, lockerVars,
                 gcOwner, marked, allocated, slow, req, ran>>

\* CommitFailureAbandons that goes on with the cycle whatever the result
CommitFailureAbandons_Never(commit_ok) == FALSE

\* line 706: TRUE when entry_collect returns because the commit failed
CommitFailureAbandons(commit_ok) == ~commit_ok

\* lines 685-714: the locker check and Step 0; commit_ok is the result of
\* os::commit_memory for the bitmap. Memory that was given back comes
\* back zeroed; memory that a failed uncommit left in place may come
\* back with its old contents or zeroed.
CycleStart(commit_ok) ==
  /\ gcPhase = "idle"
  /\ cycles < MaxCycles
  /\ ~LockerStopsCollect
  /\ mem0' = mem
  /\ roots0' = roots
  /\ top0' = top
  /\ end0' = end
  /\ bits0' = bitmap
  /\ commit' = IF commit_ok THEN "ok" ELSE "failed"
  /\ UNCHANGED mem3
  /\ IF CommitFailureAbandons(commit_ok)
       THEN /\ lastGC' = "nocommit"
            /\ cycles' = cycles + 1
            /\ UNCHANGED <<gcPhase, fwdLog, pushLog, bitmap>>
       ELSE /\ gcPhase' = "prologue"
            /\ fwdLog' = <<>>
            /\ pushLog' = <<>>
            /\ bitmap' \in {bitmap, {}}
            /\ UNCHANGED <<lastGC, cycles>>
  /\ UNCHANGED <<heapVars, new_top, mutatorVars, mem, roots, mstack,
                 pmarks, cursor, compact_point>>

\* the slots of the strong root sets (lines 495-505) and of the weak
\* OopStorages (lines 513-515): the last root slot is a weak one
StrongRoots(rts) == SubSeq(rts, 1, Len(rts) - 1)
WeakRoots(rts) == SubSeq(rts, Len(rts), Len(rts))

\* process_roots that leaves the weak roots out
process_roots_StrongOnly(rts) == StrongRoots(rts)

\* EpsilonHeap::process_roots (lines 485-516): the values the closure is
\* applied to, the strong roots first and the weak roots after them
process_roots(rts) == StrongRoots(rts) \o WeakRoots(rts)

\* lines 731-736: process_roots with the scan closure seeds the mark stack
MarkRoots ==
  /\ gcPhase = "prologue"
  /\ LET st == ScanOops([bits |-> bitmap, stack |-> <<>>], process_roots(roots))
     IN  /\ bitmap' = st.bits
         /\ mstack' = st.stack
         /\ pushLog' = pushLog \o st.stack
  /\ gcPhase' = "mark"
  /\ UNCHANGED <<heapVars, new_top, lastGC, mutatorVars, mem, roots, pmarks,
                 cursor, compact_point, cycles,
                 mem0, roots0, top0, end0, bits0, commit, fwdLog, mem3>>

\* lines 740-744: one turn of the marking loop
MarkStep ==
  /\ gcPhase = "mark"
  /\ mstack # <<>>
  /\ LET st == ScanTop([bits |-> bitmap, stack |-> mstack], mem)
     IN  /\ bitmap' = st.bits
         /\ mstack' = st.stack
         /\ pushLog' = pushLog \o SubSeq(st.stack, Len(mstack), Len(st.stack))
  /\ UNCHANGED <<heapVars, gcPhase, new_top, lastGC, mutatorVars, mem, roots,
                 pmarks, cursor, compact_point, cycles,
                 mem0, roots0, top0, end0, bits0, commit, fwdLog, mem3>>

\* CompactStart one object further up
CompactStart_Off == bottom + MinObjAlignment

\* line 769: the closure's compact point starts at _space->bottom()
CompactStart == bottom

\* lines 740, 769 and 522-523: the stack is empty; the closure of Step 2
\* starts at the bottom and walk_bitmap finds the first marked object
CalcBegin ==
  /\ gcPhase = "mark"
  /\ mstack = <<>>
  /\ gcPhase' = "calc"
  /\ compact_point' = CompactStart
  /\ pmarks' = <<>>
  /\ cursor' = get_next_marked_addr(bitmap, bottom, top)
  /\ UNCHANGED <<heapVars, new_top, lastGC, mutatorVars, mem, roots, bitmap,
                 mstack, cycles, startVars, fwdLog>>

\* AdvanceCompactPoint that leaves the compact point where it is
AdvanceCompactPoint_Stuck(cp, sz) == cp

\* line 588: _compact_point += obj->size()
AdvanceCompactPoint(cp, sz) == cp + sz

\* Moves that takes every object for one that moves
Moves_Always(obj, cp) == TRUE

\* line 583: an object at the compact point stays where it is
Moves(obj, cp) == obj # cp

\* PushesMark that never saves a mark
PushesMark_Never(obj, cp, mark) == FALSE

\* lines 583-585: the mark of an object that moves is pushed on the
\* preserved marks when it must be preserved
PushesMark(obj, cp, mark) == Moves(obj, cp) /\ must_be_preserved(mark)

\* lines 524-531 with EpsilonCalcNewLocationObjectClosure::do_object
\* (lines 578-589) on the object at the cursor
CalcStep ==
  /\ gcPhase = "calc"
  /\ cursor < top
  /\ LET obj   == cursor
         moved == Moves(obj, compact_point)
         mark  == Word(mem, obj)
     IN  /\ pmarks' = IF PushesMark(obj, compact_point, mark)
                        THEN Append(pmarks, [obj |-> obj, mark |-> mark])
                        ELSE pmarks
         /\ mem' = IF moved
                     THEN [mem EXCEPT ![obj] = ForwardingMark(compact_point)]
                     ELSE mem
         /\ compact_point' = AdvanceCompactPoint(compact_point, ObjSize(mem, obj))
         /\ fwdLog' = Append(fwdLog, [from |-> obj, to |-> compact_point,
                                      size |-> ObjSize(mem, obj), mark |-> mark,
                                      saved |-> PushesMark(obj, compact_point, mark)])
         /\ cursor' = get_next_marked_addr(bitmap, obj + 1, top)
  /\ UNCHANGED <<heapVars, gcPhase, new_top, lastGC, mutatorVars, roots, bitmap,
                 mstack, cycles, startVars>>

\* NewTop that keeps the old top
NewTop_OldTop == top

\* line 775: new_top = cl.compact_point()
NewTop == compact_point

\* lines 775 and 786-787: the walk is over, new_top is the compact point; Step 3
\* starts its own walk
CalcEnd ==
  /\ gcPhase = "calc"
  /\ cursor >= top
  /\ new_top' = NewTop
  /\ gcPhase' = "adjust"
  /\ cursor' = get_next_marked_addr(bitmap, bottom, top)
  /\ UNCHANGED <<heapVars, lastGC, mutatorVars, mem, roots, bitmap, mstack,
                 pmarks, compact_point, cycles, startVars, fwdLog>>

\* lines 524-531 with EpsilonAdjustPointersObjectClosure::do_object
\* (lines 625-628): the reference slots of the object at the cursor
AdjustStep ==
  /\ gcPhase = "adjust"
  /\ cursor < top
  /\ LET slots == {RefSlots(mem, cursor)[i] : i \in 1..Len(RefSlots(mem, cursor))}
     IN  mem' = [a \in DOMAIN mem |->
                   IF a \in slots THEN AdjustOop(mem, mem[a]) ELSE mem[a]]
  /\ cursor' = get_next_marked_addr(bitmap, cursor + 1, top)
  /\ UNCHANGED <<heapVars, gcPhase, new_top, lastGC, mutatorVars, roots, bitmap,
                 mstack, pmarks, compact_point, cycles, startVars, fwdLog>>

\* lines 791-795 and 803-804: the roots are adjusted, the preserved marks follow
\* their objects, and Step 4 starts its walk
AdjustRoots ==
  /\ gcPhase = "adjust"
  /\ cursor >= top
  /\ roots' = [i \in 1..Len(roots) |-> AdjustOop(mem, roots[i])]
  /\ pmarks' = [i \in 1..Len(pmarks) |->
                  [obj |-> AdjustOop(mem, pmarks[i].obj), mark |-> pmarks[i].mark]]
  /\ gcPhase' = "move"
  /\ cursor' = get_next_marked_addr(bitmap, bottom, top)
  /\ mem3' = mem
  /\ UNCHANGED <<heapVars, new_top, lastGC, mutatorVars, mem, bitmap, mstack,
                 compact_point, cycles,
                 mem0, roots0, top0, end0, bits0, commit, pushLog, fwdLog>>

\* MovedMark that keeps the mark word that was copied
MovedMark_Copied(m, fwd) == Word(m, fwd)

\* line 645: fwd->init_mark(); m is the heap after the copy
MovedMark(m, fwd) == MarkPrototype

\* lines 524-531 with EpsilonMoveObjectsObjectClosure::do_object
\* (lines 637-648) on the object at the cursor
MoveStep ==
  /\ gcPhase = "move"
  /\ cursor < top
  /\ LET obj == cursor
         fwd == forwardee(mem, obj)
         copied == conjoint_words(mem, obj, fwd, ObjSize(mem, obj))
     IN  mem' = IF is_forwarded(mem, obj)
                  THEN [copied EXCEPT ![fwd] = MovedMark(copied, fwd)]
                  ELSE mem
  /\ cursor' = get_next_marked_addr(bitmap, cursor + 1, top)
  /\ UNCHANGED <<heapVars, gcPhase, new_top, lastGC, mutatorVars, roots, bitmap,
                 mstack, pmarks, compact_point, cycles, startVars, fwdLog>>

\* MoveEnd that returns to idle without the epilogue
MoveEnd_SkipsEpilogue ==
  /\ gcPhase = "move"
  /\ cursor >= top
  /\ top' = new_top
  /\ gcPhase' = "idle"
  /\ UNCHANGED <<end, committed, new_top, lastGC, mutatorVars, mem, roots,
                 bitmap, mstack, pmarks, cursor, compact_point, cycles, startVars, fwdLog>>

\* line 809: _space->set_top(new_top)
MoveEnd ==
  /\ gcPhase = "move"
  /\ cursor >= top
  /\ top' = new_top
  /\ gcPhase' = "epilogue"
  /\ UNCHANGED <<end, committed, new_top, lastGC, mutatorVars, mem, roots,
                 bitmap, mstack, pmarks, cursor, compact_point, cycles, startVars, fwdLog>>

\* the bitmap after the verification of lines 832-853: cleared and marked
\* again from the roots
VerifiedBits(m, rts) ==
  DrainStack(ScanOops([bits |-> {}, stack |-> <<>>], rts), m).bits

\* Step 5 (lines 812-874): restore the preserved marks, verify when verify
\* is set, uncommit the bitmap (uncommit_ok is the result of
\* os::uncommit_memory) and, with EpsilonUncommit, give the tail back
CycleEpilogue(verify, uncommit_ok) ==
  /\ gcPhase = "epilogue"
  /\ mem' = restore(mem, pmarks)
  /\ pmarks' = <<>>
  /\ bitmap' = IF uncommit_ok THEN {}
               ELSE IF verify THEN VerifiedBits(restore(mem, pmarks), roots)
               ELSE bitmap
  /\ IF EpsilonUncommit
       THEN /\ committed' = shrink_by(ShrinkBytes)
            /\ end' = VirtualSpaceHigh(shrink_by(ShrinkBytes))
       ELSE UNCHANGED <<committed, end>>
  /\ gcPhase' = "idle"
  /\ lastGC' = "full"
  /\ cycles' = cycles + 1
  /\ UNCHANGED <<top, new_top, mutatorVars, roots, mstack, cursor,
                 compact_point, startVars, fwdLog>>

\* a heap of objects with roots, at a safepoint, the collector idle
InitGC ==
  /\ \E ks \in Layouts :
       /\ \E os \in ObjSeqs(ks, {NULL} \cup Starts(ks)) : mem = BuildHeap(ks, os)
       /\ roots \in [1..NRoots -> {NULL} \cup Starts(ks)]
       /\ top = bottom + LayoutWords(ks)
  /\ committed = GCHeapWords * HeapWordSize
  /\ end = VirtualSpaceHigh(GCHeapWords * HeapWordSize)
  /\ heapLock = 0
  /\ pc = [t \in Threads |-> "idle"]
  /\ op = [t \in Threads |-> "none"]
  /\ size = [t \in Threads |-> 0]
  /\ res = [t \in Threads |-> NULL]
  /\ retry = [t \in Threads |-> FALSE]
  /\ EpsilonSlidingGC = TRUE
  /\ EpsilonImplicitGC = TRUE
  /\ EpsilonUncommit \in BOOLEAN
  /\ req_id = 0
  /\ id = [t \in Threads |-> 0]
  /\ critical = [t \in Threads |-> 0]
  /\ gcPending = FALSE
  /\ gclLock = 0
  /\ gcPhase = "idle"
  /\ gcOwner = VMThread
  /\ new_top = NULL
  /\ marked = {}
  /\ allocated = <<>>
  /\ slow = [t \in Threads |-> NoSlow]
  /\ req = [t \in Threads |-> NoReq]
  /\ ran = {}
  /\ lastGC = "none"
  /\ bitmap = {}
  /\ mstack = <<>>
  /\ pmarks = <<>>
  /\ cursor = NULL
  /\ compact_point = NULL
  /\ cycles = 0
  /\ mem0 = mem
  /\ roots0 = roots
  /\ top0 = top
  /\ end0 = end
  /\ bits0 = {}
  /\ commit = "none"
  /\ pushLog = <<>>
  /\ mem3 = mem
  /\ fwdLog = <<>>
  /\ TlabUnused
  /\ CtrUnused

\* collections of a heap of objects, one after the other; the bitmap's
\* memory is given back every time
NextGC ==
  \/ \E commit_ok \in BOOLEAN : CycleStart(commit_ok)
  \/ MarkRoots
  \/ MarkStep
  \/ CalcBegin
  \/ CalcStep
  \/ CalcEnd
  \/ AdjustStep
  \/ AdjustRoots
  \/ MoveStep
  \/ MoveEnd
  \/ \E verify \in BOOLEAN : CycleEpilogue(verify, TRUE)

SpecGC == InitGC /\ [][NextGC]_vars

\* the heaps of InitGC with at most FairHeapWords words in use
InitGCFair == InitGC /\ top - bottom <= FairHeapWords

\* the VM thread, once inside entry_collect, keeps running
SpecGCFair == InitGCFair /\ [][NextGC]_vars /\ WF_vars(NextGC)

\* the cycle with both results of os::uncommit_memory (line 864)
NextBitmap ==
  \/ \E commit_ok \in BOOLEAN : CycleStart(commit_ok)
  \/ MarkRoots
  \/ MarkStep
  \/ CalcBegin
  \/ CalcStep
  \/ CalcEnd
  \/ AdjustStep
  \/ AdjustRoots
  \/ MoveStep
  \/ MoveEnd
  \/ \E verify, uncommit_ok \in BOOLEAN : CycleEpilogue(verify, uncommit_ok)

SpecBitmap == InitGC /\ [][NextBitmap]_vars

(* ------------------------------------------------------------------ *)
(* Properties of the allocator                                         *)
(* ------------------------------------------------------------------ *)

end_reserved == bottom + MaxHeapWords

Disjoint(r1, r2) == r1.a + r1.n <= r2.a \/ r2.a + r2.n <= r1.a

\* C1: every range handed out by a successful allocate_work lies in
\* [bottom, top) and no two ranges handed out overlap, for every interleaving
\* of allocating threads with each other and with expansions under Heap_lock;
\* a thread that comes back from allocate_work with an address holds one of
\* these ranges.
C1_AllocationsInBoundsAndDisjoint ==
  /\ \A i \in 1..Len(allocated) :
       /\ bottom <= allocated[i].a
       /\ allocated[i].a + allocated[i].n <= top
  /\ \A i, j \in 1..Len(allocated) :
       i # j => Disjoint(allocated[i], allocated[j])
  /\ \A t \in Threads :
       (pc[t] = "aw_ret" /\ res[t] # NULL) =>
         /\ bottom <= res[t]
         /\ res[t] + size[t] <= top
         /\ \E i \in 1..Len(allocated) : allocated[i] = [a |-> res[t], n |-> size[t]]
  /\ \A t, u \in Threads :
       (t # u /\ pc[t] = "aw_ret" /\ pc[u] = "aw_ret" /\ res[t] # NULL /\ res[u] # NULL) =>
         Disjoint([a |-> res[t], n |-> size[t]], [a |-> res[u], n |-> size[u]])

\* two threads come back from allocate_work with an address at the same time,
\* one of them through the locked retry, after the space was expanded
C1_Witness ==
  \E t, u \in Threads :
    /\ t # u
    /\ pc[t] = "aw_ret" /\ res[t] # NULL
    /\ pc[u] = "aw_ret" /\ res[u] # NULL
    /\ committed > InitialHeapWords * HeapWordSize
    /\ res[u] > res[t]

\* C2: bottom <= top <= end_committed <= end_reserved in every reachable
\* state, and the end of the space is the high mark of the virtual space.
C2_SpaceOrdered ==
  /\ bottom <= top
  /\ top <= end
  /\ end <= end_reserved
  /\ end = VirtualSpaceHigh(committed)

\* a collection with uncommit-on-GC has shrunk the committed space to the
\* survivors, and an expansion has followed it
C2_Witness ==
  /\ EpsilonUncommit
  /\ lastGC = "full"
  /\ gcPhase = "idle"
  /\ top > bottom
  /\ \E t \in Threads : slow[t].kind \in {"bulk", "tail"}

\* what the slow path does according to C3: "oom" or the bytes to expand by
C3_Claimed(r) ==
  IF r.want <= r.uncommitted THEN [kind |-> "expand", by |-> r.want]
  ELSE IF r.bytes <= r.unused THEN [kind |-> "expand", by |-> r.uncommitted]
  ELSE [kind |-> "oom", by |-> 0]

\* C3: in the slow path, with want = max(n*word, MinExpand): if
\* want <= uncommitted the space is expanded by want, otherwise if
\* n*word <= unused by all of uncommitted, and null is returned only when
\* n*word > unused (a request of exactly the unused space is satisfied).
C3_SlowPathDecision ==
  \A t \in Threads :
    slow[t].kind \in {"bulk", "tail", "oom"} =>
      C3_Claimed(slow[t]) =
        [kind |-> IF slow[t].kind = "oom" THEN "oom" ELSE "expand", by |-> slow[t].by]

\* C4: when expand_by returns false in the slow path, allocate_work returns
\* null to its caller.
C4_ExpandFailureReturnsNull ==
  \A t \in Threads :
    slow[t].kind = "failed" => (pc[t] = "aw_ret" /\ res[t] = NULL)

(* ------------------------------------------------------------------ *)
(* Properties of the coalescer and the pin lock                        *)
(* ------------------------------------------------------------------ *)

ReqDone == {"skipped", "pinned", "nocommit", "full"}
MarkToMove == {"mark", "calc", "adjust", "move"}

\* C5: of the requests issued while one collection is running, at most one
\* is accepted by doit_prologue (so at most two collections run for the
\* batch: the running one and one more); every other one is skipped.
C5_OneMorePerBatch ==
  \A r1, r2 \in ran : r1.batch = r2.batch => r1 = r2

\* a request of a batch is skipped after another request of that batch ran
C5_Witness ==
  \E t \in Threads :
    /\ pc[t] = "vm_ret"
    /\ req[t].state = "skipped"
    /\ req[t].batch # 0
    /\ \E r \in ran : r.batch = req[t].batch

\* C6 as claimed: whenever doit_prologue skips a request, a complete
\* mark-compact cycle began after the requester read the request id and
\* finished before the requester returned.
C6_SkippedSawFullCycle ==
  \A t \in Threads : req[t].state = "skipped" => "full" \in req[t].seen

\* C6 as amended: whenever doit_prologue skips a request, a call of
\* entry_collect began after the requester read the request id and returned
\* before the requester returned (it ran the complete cycle unless it gave up
\* at entry for a pin or for the bitmap commit).
C6_SkippedSawCollection ==
  \A t \in Threads : req[t].state = "skipped" => req[t].seen # {}

\* a skipped request that was covered by a complete cycle
C6_Witness ==
  \E t \in Threads : req[t].state = "skipped" /\ req[t].seen = {"full"}

\* C7: while the collector is in Phase 1 (mark), 2 (forwarding), 3 (adjust)
\* or 4 (move), no thread holds a pin.
C7_NoPinWhileCompacting ==
  gcPhase \in MarkToMove => ~is_active

\* the collector is moving objects after an earlier call gave up for a pin
C7_Witness ==
  gcPhase = "move" /\ lastGC = "pinned"

\* C8: while some thread holds a pin, every collect request and every
\* allocate_or_collect call that is in progress eventually returns.
C8_CallsReturnWhilePinned ==
  \A t \in Allocators :
    (is_active /\ op[t] \in {"alloc", "collect"}) ~> (op[t] = "none")

\* C9 as claimed: the collect request that follows a collection skipped for
\* a pin, issued with no pin held and no other request in flight, runs a full
\* compaction cycle.
C9_NextRequestRunsFullCycle ==
  \A t \in Threads :
    (req[t].quiet /\ req[t].state \in ReqDone) => req[t].state = "full"

\* C9 as amended: that request is accepted by doit_prologue and its
\* entry_collect passes the GC locker check; it runs the full cycle unless the
\* bitmap commit of Phase 0 fails.
C9_NextRequestNotSuppressed ==
  \A t \in Threads :
    (req[t].quiet /\ req[t].state \in ReqDone) => req[t].state \in {"full", "nocommit"}

\* a request after a skipped collection and after the unpin ran the full cycle
C9_Witness ==
  \E t \in Threads : req[t].quiet /\ req[t].state = "full"

(* ------------------------------------------------------------------ *)
(* Properties of the mark-compact cycle                                *)
(* ------------------------------------------------------------------ *)

CycleDone == gcPhase = "idle" /\ lastGC = "full"

\* the references an object of the heap m holds, by its klass
TargetsOf(m, o) ==
  {Word(m, o + KlassRefOffsets(Word(m, o + 1))[i]) :
     i \in 1..Len(KlassRefOffsets(Word(m, o + 1)))} \ {NULL}

\* the objects reachable from a set of objects
RECURSIVE ReachFrom(_, _)
ReachFrom(m, S) ==
  LET T == S \cup UNION {TargetsOf(m, o) : o \in S}
  IN  IF T = S THEN S ELSE ReachFrom(m, T)

\* the objects reachable from the roots rts
Reachable(m, rts) == ReachFrom(m, {rts[i] : i \in 1..Len(rts)} \ {NULL})

\* the words the objects of S take
RECURSIVE SumSizes(_, _)
SumSizes(m, S) ==
  IF S = {} THEN 0
  ELSE LET o == CHOOSE x \in S : TRUE
       IN  ObjSize(m, o) + SumSizes(m, S \ {o})

\* the objects Step 2 visited, where they were and where they went
LogFrom == {fwdLog[i].from : i \in 1..Len(fwdLog)}
LogTo == {fwdLog[i].to : i \in 1..Len(fwdLog)}
NewAddr(v) ==
  IF v \in LogFrom THEN fwdLog[CHOOSE i \in 1..Len(fwdLog) : fwdLog[i].from = v].to
  ELSE NULL

\* the object starts found by stepping from a by size(o) up to lim
RECURSIVE Walk(_, _, _)
Walk(m, a, lim) ==
  IF a >= lim THEN <<>> ELSE <<a>> \o Walk(m, a + ObjSize(m, a), lim)

C18_BitmapClearOutsideCycle ==
  gcPhase = "idle" => bitmap = {}

\* C19: when the commit of the bitmap fails, entry_collect returns with
\* nothing marked, forwarded or moved, no mark word changed, and top and the
\* committed end where they were.
C19_CommitFailureIsNoOp ==
  commit = "failed" =>
    /\ gcPhase = "idle"
    /\ lastGC = "nocommit"
    /\ mem = mem0
    /\ roots = roots0
    /\ bitmap = bits0
    /\ pmarks = <<>>
    /\ mstack = <<>>
    /\ top = top0
    /\ end = end0

\* the commit failed on a heap where a cycle would have moved an object
C19_Witness ==
  /\ commit = "failed"
  /\ gcPhase = "idle"
  /\ Reachable(mem, roots) # {}
  /\ bottom \notin Reachable(mem, roots)

\* C20 as claimed: for min_size <= _max_tlab_size the size allocate_new_tlab
\* passes on and reports lies in [min_size, _max_tlab_size] and is
\* object-aligned, and a request equal to _max_tlab_size and an elastic
\* growth above _max_tlab_size both give exactly _max_tlab_size.
C20_TlabSizeClampedAndMaxAtBoundary ==
  tlab.thread # 0 =>
    /\ tlab.min_size <= tlab.size
    /\ tlab.size <= max_tlab_size
    /\ is_object_aligned(tlab.size)
    /\ tlab.res # NULL => tlab.actual_size = tlab.size
    /\ tlab.requested_size = max_tlab_size => tlab.size = max_tlab_size
    /\ (~tlab.fits /\ tlab.grown > max_tlab_size) => tlab.size = max_tlab_size

\* C20 as amended: the size lies in [min_size, _max_tlab_size] and is
\* object-aligned; an elastic growth above _max_tlab_size gives exactly
\* _max_tlab_size; a request equal to _max_tlab_size gives _max_tlab_size
\* when it fits the ergonomic size or elastic TLABs are off, and otherwise
\* the ergonomic size times the elasticity, clamped and aligned.
C20_TlabSizeClamped ==
  tlab.thread # 0 =>
    /\ tlab.min_size <= tlab.size
    /\ tlab.size <= max_tlab_size
    /\ is_object_aligned(tlab.size)
    /\ tlab.res # NULL => tlab.actual_size = tlab.size
    /\ (tlab.requested_size = max_tlab_size /\ tlab.fits) =>
         tlab.size = max_tlab_size
    /\ (tlab.requested_size = max_tlab_size /\ ~tlab.fits) =>
         tlab.size = align_up(clamp(ElasticSize(tlab.ergo_tlab), tlab.min_size,
                                    max_tlab_size), MinObjAlignment)
    /\ (~tlab.fits /\ tlab.grown > max_tlab_size) => tlab.size = max_tlab_size

\* a successful call whose elastic growth went above _max_tlab_size, with
\* an odd min_size
C20_Witness ==
  /\ tlab.thread # 0
  /\ tlab.res # NULL
  /\ ~tlab.fits
  /\ tlab.grown > max_tlab_size
  /\ tlab.size = max_tlab_size
  /\ ~is_object_aligned(tlab.min_size)

\* C21: with EpsilonSlidingGC off, a collect call changes neither top nor
\* the committed end nor any object; over allocate and collect calls top never
\* goes down and no object changes its address; no collection cycle runs, and
\* an allocation that fails returns null with no collection requested.
C21_NoCollectionWithoutSlidingGC ==
  [][~EpsilonSlidingGC =>
       /\ top' >= top
       /\ end' >= end
       /\ Len(allocated') >= Len(allocated)
       /\ \A i \in 1..Len(allocated) : allocated'[i] = allocated[i]
       /\ gcPhase' = "idle"
       /\ lastGC' = "none"
       /\ req_id' = 0
       /\ \A t \in Threads :
            /\ pc[t] = "collect" =>
                 (pc'[t] \in {"collect", "idle"} /\
                  (pc'[t] = "idle" => UNCHANGED <<heapVars, allocated>>))
            /\ (pc[t] = "aw_ret" /\ res[t] = NULL) => pc'[t] \in {"aw_ret", "idle"}
            /\ pc'[t] \notin VmPcs \cup {"vm_ret", "aoc_block", "aoc_block_wait",
                                         "aoc_unblock"}]_vars

\* with EpsilonSlidingGC off and implicit collections asked for, a collect
\* call was ignored and an allocation on the full heap has come back null
C21_Witness ==
  /\ ~EpsilonSlidingGC
  /\ EpsilonImplicitGC
  /\ Len(allocated) >= 2
  /\ \E t \in Threads : req[t].state = "ignored"
  /\ \E t \in Threads : pc[t] = "aw_ret" /\ res[t] = NULL /\ slow[t].kind = "oom"

\* C22: the watermarks _last_counter_update and _last_heap_print never go
\* down, whatever the interleaving of the allocating threads and the
\* collections in between, and no two threads publish from the same value of
\* a watermark.
C22_WatermarksMonotonic ==
  [][/\ last_counter_update' >= last_counter_update
     /\ last_heap_print' >= last_heap_print
     /\ \A mark \in {"counter", "print"} :
          (/\ winners'[mark] # winners[mark]
           /\ winners[mark].thread # 0
           /\ winners'[mark].last = winners[mark].last)
            => winners'[mark].thread = winners[mark].thread]_vars

\* the phase changes of a cycle that runs in full
PhaseOrder ==
  {<<"idle", "prologue">>, <<"prologue", "mark">>, <<"mark", "calc">>,
   <<"calc", "adjust">>, <<"adjust", "move">>, <<"move", "epilogue">>,
   <<"epilogue", "idle">>}

WeakOnly == Reachable(mem0, WeakRoots(roots0)) \ Reachable(mem0, StrongRoots(roots0))

ObjWords(m, a) == {a + k : k \in 0..(ObjSize(m, a) - 1)}

C26_ErgoFollowsOutcome ==
  /\ []((tlab # NoTlab /\ EpsilonElasticTLAB) =>
          /\ (tlab.res # NULL /\ ~tlab.fits) =>
               /\ tlab.requested_size > tlab.ergo_tlab
               /\ ergo_tlab_size[tlab.thread] = tlab.actual_size
          /\ (tlab.res # NULL /\ tlab.fits) =>
               /\ tlab.requested_size <= tlab.ergo_tlab
               /\ ergo_tlab_size[tlab.thread] = tlab.ergo_before
          /\ tlab.res = NULL => ergo_tlab_size[tlab.thread] = 0)
  /\ [][\A u \in Threads :
          (ergo_tlab_size'[u] # ergo_tlab_size[u] \/ last_tlab_time'[u] # last_tlab_time[u])
            => (tlab'.thread = u /\ (top' # top \/ tlab'.res = NULL))]_vars

\* both threads have an ergonomic size of their own; the last call grew the
\* caller's from a smaller one
C26_Witness ==
  /\ EpsilonElasticTLAB
  /\ tlab.res # NULL
  /\ ~tlab.fits
  /\ tlab.ergo_before > 0
  /\ ergo_tlab_size[tlab.thread] > tlab.ergo_before
  /\ \E u \in Allocators : u # tlab.thread /\ ergo_tlab_size[u] > 0
                             /\ ergo_tlab_size[u] # ergo_tlab_size[tlab.thread]

\* C27: with elastic TLABs and decay on, a call of allocate_new_tlab sizes
\* with an ergonomic size of 0, and writes 0 to the caller's ergonomic size,
\* exactly when the caller's last-allocation time is not 0 and is more than
\* decay_ns before the time of the call; a caller that never had a TLAB, or
\* had one at most decay_ns ago, sizes with the ergonomic size it had.
C27_DecayResetsExactlyWhenStale ==
  [][(tlab' # tlab /\ EpsilonElasticTLAB /\ EpsilonElasticTLABDecay) =>
       LET t     == tlab'.thread
           stale == /\ last_tlab_time[t] # 0
                    /\ javaTimeNanos - last_tlab_time[t] > decay_time_ns
       IN  /\ tlab'.decayed <=> stale
           /\ tlab'.ergo_tlab = IF stale THEN 0 ELSE ergo_tlab_size[t]
           /\ tlab'.fits <=> tlab'.requested_size <= tlab'.ergo_tlab
           /\ (stale /\ tlab'.res # NULL) =>
                 ergo_tlab_size'[t] = tlab'.actual_size
           /\ (last_tlab_time[t] = 0 /\ tlab'.res # NULL /\ tlab'.fits) =>
                 ergo_tlab_size'[t] = ergo_tlab_size[t]]_vars

\* the last call found the caller's TLAB stale and dropped an ergonomic size
\* that would have fitted the request, while the other thread has not had a
\* TLAB yet although the clock is past decay_ns
C27_Witness ==
  /\ EpsilonElasticTLAB
  /\ EpsilonElasticTLABDecay
  /\ tlab.decayed
  /\ tlab.ergo_before >= tlab.requested_size
  /\ ~tlab.fits
  /\ tlab.res # NULL
  /\ \E u \in Allocators : last_tlab_time[u] = 0 /\ javaTimeNanos > decay_time_ns

\* positions of a thread inside allocate_work
AwPcs == {"aw_fast", "aw_lock", "aw_locked", "aw_expand", "aw_ret"}

\* C28: a call of allocate_or_collect_work returns either from its first
\* allocate_work (with its address, or with null when EpsilonSlidingGC or
\* EpsilonImplicitGC is off) or through GCLocker::unblock; a collection is
\* requested only when the first allocate_work returned null with both flags
\* on, and not again in the same call; the request is followed by
\* GCLocker::block, one more allocate_work that runs with the locker blocked
\* by the caller, and GCLocker::unblock, after which the call returns.
C28_AllocateOrCollectOutcomes ==
  /\ [](\A t \in Allocators :
          /\ (retry[t] /\ pc[t] # "idle") =>
                (op[t] = "alloc" /\ gclLock = t /\ pc[t] \in AwPcs \cup {"aoc_unblock"})
          /\ (op[t] = "alloc" /\ pc[t] \in VmPcs \cup {"vm_ret", "aoc_block", "aoc_block_wait"}) =>
                (~retry[t] /\ res[t] = NULL /\ EpsilonSlidingGC /\ EpsilonImplicitGC))
  /\ [][\A t \in Allocators :
          (op[t] = "alloc" /\ pc'[t] # pc[t]) =>
            /\ pc'[t] = "idle" =>
                  \/ /\ pc[t] = "aw_ret" /\ ~retry[t]
                     /\ res[t] # NULL \/ ~(EpsilonSlidingGC /\ EpsilonImplicitGC)
                  \/ /\ pc[t] = "aoc_unblock" /\ retry[t]
                     /\ gclLock = t /\ gclLock' = 0
            /\ pc'[t] = "vm_lock" =>
                  /\ pc[t] = "aw_ret" /\ ~retry[t] /\ res[t] = NULL
                  /\ EpsilonSlidingGC /\ EpsilonImplicitGC
            /\ pc'[t] = "aoc_block" => pc[t] = "vm_ret"
            /\ pc'[t] = "aoc_block_wait" =>
                  (pc[t] = "aoc_block" /\ gclLock' = t)
            /\ (pc'[t] = "aw_fast" /\ pc[t] \notin AwPcs) =>
                  (pc[t] = "aoc_block_wait" /\ ~retry[t] /\ retry'[t])
            /\ pc'[t] = "aoc_unblock" => (pc[t] = "aw_ret" /\ retry[t])
            /\ (pc[t] = "aw_ret" /\ retry[t]) => pc'[t] = "aoc_unblock"]_vars

\* one call is about to unblock with the address its second allocate_work
\* got after a full collection, while another has come back from its
\* collection and waits to block
C28_Witness ==
  /\ lastGC = "full"
  /\ \E t, u \in Allocators :
       /\ pc[t] = "aoc_unblock" /\ retry[t] /\ res[t] # NULL
       /\ pc[u] = "aoc_block" /\ ~retry[u]

C30_AllocateWorkTerminates ==
  /\ \A t \in Allocators :
       (pc[t] \in AwPcs \ {"aw_ret"}) ~> (pc[t] = "aw_ret")
  /\ [](\A t \in Allocators :
          pc[t] = "aw_ret" =>
            \/ res[t] = NULL /\ slow[t].kind = "oom"
            \/ \E i \in 1..Len(allocated) :
                 allocated[i] = [a |-> res[t], n |-> size[t]])
  /\ [][\A t \in Allocators :
          (pc[t] \in AwPcs \ {"aw_fast"} /\ pc'[t] = "aw_fast") =>
            /\ pc[t] = "aw_expand"
            /\ committed' > committed
            /\ committed' <= max_capacity]_vars

\* a thread expanded the space, found it taken by the other thread when it
\* came back, and returns null from the same call
C30_Witness ==
  \E t \in Allocators :
    /\ pc[t] = "aw_ret"
    /\ res[t] = NULL
    /\ slow[t].kind = "oom"
    /\ slow[t].expanded
    /\ committed = max_capacity

====
